---- MODULE Spec2Model ----
(***************************************************************************)
(* Conversation orchestration core of mylittleprice:                       *)
(*   - the cycle/iteration state machine (UniversalPromptManager),         *)
(*   - the per-turn chat pipeline (ChatProcessor.ProcessChat),             *)
(*   - the realtime fan-out layer (WSHandler).                             *)
(*   - the text functions of the AI client (GeminiService).                *)
(* The specifications of this module share its variables: each one moves   *)
(* the variables of its own layer and leaves the others at their initial   *)
(* values.                                                                 *)
(***************************************************************************)
EXTENDS Integers, Sequences, FiniteSets, TLC

VARIABLES
    cycleState,   \* SpecCycle: the models.CycleState under test
    cycleOp,      \* SpecCycle: the last operation applied, its inputs and result
    incCalls,     \* SpecCycle: IncrementIteration calls since the cycle began
    store,        \* Spec: session store (Redis), session id -> persisted session
    anonCount,    \* Spec: anonymous search counter (Redis), browser id -> count
    turn,         \* Spec: per worker, the ProcessChat execution in flight
    wsHandler,    \* SpecFanout: per process, the WSHandler's clients and userConns
    conn,         \* SpecFanout: per connection, its HandleWebSocket goroutine
    inbox,        \* SpecFanout: per connection, the frames written to it, in order
    bus,          \* SpecFanout: per subscribed process, publications not yet handled
    chats,        \* SpecFanout: the chat messages received so far (message ids)
    jsonCall,     \* SpecJSON: the text under test, the function applied, its result
    prompt,       \* SpecContext: a session's cycle state and the context built from it
    extractor,    \* SpecExtractor: a session's conversation context and the last update
    client,       \* SpecClient: the browser's WebSocket connection and credentials
    serpCache,    \* SpecSerpCache: the cached search results, by cache key
    searchCall,   \* SpecSerpCache: the last SearchWithCache call and its result
    localeCall,   \* SpecLocale: a stored session, a request and the session it yields
    hubMu,        \* SpecHub: the holders of WSHandler.mu
    goroutine,    \* SpecHub: per goroutine of one process, its position and locals
    connWriters,  \* SpecHub: per connection, the goroutines inside a WriteJSON on it
    geminiSvc,    \* SpecKeys: the key rotator and GeminiService's client and key index
    aiCall        \* SpecKeys: per request, its position in executeWithRetryAndModel

cycleVars == <<cycleState, cycleOp, incCalls>>
chatVars == <<store, anonCount, turn>>

fanVars == <<wsHandler, conn, inbox, bus, chats>>

libVars == <<jsonCall, prompt, extractor, client>>

serpVars == <<serpCache, searchCall>>

hubVars == <<hubMu, goroutine, connWriters>>

keyVars == <<geminiSvc, aiCall>>

svcVars == <<serpVars, localeCall, hubVars, keyVars>>

vars == <<cycleState, cycleOp, incCalls, store, anonCount, turn,
          wsHandler, conn, inbox, bus, chats, jsonCall, prompt, extractor,
          client, serpCache, searchCall, localeCall, hubMu, goroutine,
          connWriters, geminiSvc, aiCall>>

-----------------------------------------------------------------------------
(* Cycle state machine: src/unnamed/part_004                               *)

MaxIterations == 6
PromptIDUniversal == "UniversalPrompt v1.0.1"

\* bounds of the cycle specification
MaxCycleID == 3
MaxHistory == 2
MaxIncCalls == 7

Roles == {"user", "assistant"}
Contents == {"a", "b"}
ProductLists == {<<>>, <<"p1">>}

NoCycleContext ==
    [Set |-> FALSE, Groups |-> <<>>, Subgroups |-> <<>>,
     Products |-> <<>>, LastRequest |-> ""]

InitializeCycleState ==
    [CycleID |-> 1,
     Iteration |-> 1,
     CycleHistory |-> <<>>,
     LastCycleContext |-> NoCycleContext,
     LastDefined |-> <<>>,
     PromptID |-> PromptIDUniversal]

\* extractGroups / extractSubgroups build an empty map and return its keys
extractGroups(history) == <<>>
extractSubgroups(history) == <<>>

\* a plausible slip: compare with > instead of >=, letting iteration reach 7
IncrementIteration_OffByOne(cs) ==
    IF cs.Iteration > MaxIterations
    THEN [state |-> cs, ok |-> FALSE]
    ELSE [state |-> [cs EXCEPT !.Iteration = @ + 1], ok |-> TRUE]

\* returns the new state and the boolean result: TRUE = continue in the same
\* cycle, FALSE = a new cycle is needed ("rotate")
IncrementIteration(cs) ==
    IF cs.Iteration >= MaxIterations
    THEN [state |-> cs, ok |-> FALSE]
    ELSE [state |-> [cs EXCEPT !.Iteration = @ + 1], ok |-> TRUE]

\* a plausible slip: the new cycle keeps the old cycle id
StartNewCycle_KeepID(cs, lastRequest, products) ==
    [cs EXCEPT !.Iteration = 1,
               !.CycleHistory = <<>>,
               !.LastCycleContext =
                   [Set |-> TRUE,
                    Groups |-> extractGroups(cs.CycleHistory),
                    Subgroups |-> extractSubgroups(cs.CycleHistory),
                    Products |-> products,
                    LastRequest |-> lastRequest]]

StartNewCycle(cs, lastRequest, products) ==
    [cs EXCEPT !.CycleID = @ + 1,
               !.Iteration = 1,
               !.CycleHistory = <<>>,
               !.LastCycleContext =
                   [Set |-> TRUE,
                    Groups |-> extractGroups(cs.CycleHistory),
                    Subgroups |-> extractSubgroups(cs.CycleHistory),
                    Products |-> products,
                    LastRequest |-> lastRequest]]

\* a plausible slip: the stored history is trimmed to the last MaxIterations
\* entries, as the prompt builders trim what they show
AddToCycleHistory_Trimmed(cs, role, content) ==
    LET h == Append(cs.CycleHistory, [Role |-> role, Content |-> content])
        startIdx == IF Len(h) - MaxIterations < 0 THEN 0
                    ELSE Len(h) - MaxIterations
    IN [cs EXCEPT !.CycleHistory = SubSeq(h, startIdx + 1, Len(h))]

AddToCycleHistory(cs, role, content) ==
    [cs EXCEPT !.CycleHistory = Append(@, [Role |-> role, Content |-> content])]

NoCycleOp ==
    [name |-> "none", ok |-> TRUE, pre |-> InitializeCycleState,
     afterRotate |-> FALSE, lastRequest |-> "", products |-> <<>>,
     role |-> "", content |-> ""]

CycleIdle ==
    /\ cycleState = InitializeCycleState
    /\ cycleOp = NoCycleOp
    /\ incCalls = 0

CycIncrementIteration ==
    /\ incCalls < MaxIncCalls
    /\ LET r == IncrementIteration(cycleState) IN
        /\ cycleState' = r.state
        /\ cycleOp' = [NoCycleOp EXCEPT !.name = "IncrementIteration",
                                        !.ok = r.ok, !.pre = cycleState]
    /\ incCalls' = incCalls + 1
    /\ UNCHANGED <<svcVars, chatVars, fanVars, libVars>>

CycStartNewCycle ==
    /\ cycleState.CycleID < MaxCycleID
    /\ \E lastRequest \in Contents, products \in ProductLists :
        /\ cycleState' = StartNewCycle(cycleState, lastRequest, products)
        /\ cycleOp' = [NoCycleOp EXCEPT
                          !.name = "StartNewCycle", !.pre = cycleState,
                          !.afterRotate = (cycleOp.name = "IncrementIteration"
                                           /\ ~cycleOp.ok),
                          !.lastRequest = lastRequest, !.products = products]
    /\ incCalls' = 0
    /\ UNCHANGED <<svcVars, chatVars, fanVars, libVars>>

CycAddToCycleHistory ==
    /\ Len(cycleState.CycleHistory) < MaxHistory
    /\ \E role \in Roles, content \in Contents :
        /\ cycleState' = AddToCycleHistory(cycleState, role, content)
        /\ cycleOp' = [NoCycleOp EXCEPT !.name = "AddToCycleHistory",
                                        !.pre = cycleState,
                                        !.role = role, !.content = content]
    /\ UNCHANGED incCalls
    /\ UNCHANGED <<svcVars, chatVars, fanVars, libVars>>

NextCycle ==
    \/ CycIncrementIteration
    \/ CycStartNewCycle
    \/ CycAddToCycleHistory

-----------------------------------------------------------------------------
(* Claims on the cycle state machine                                       *)

\* C3: cycle rotation boundary. Counting IncrementIteration calls from the
\* start of a cycle (iteration = 1): each of the first five calls returns
\* "continue" and adds one to iteration, changing nothing else; the 6th and
\* any later call returns "rotate" and changes nothing (iteration stays at
\* MaxIterations); StartNewCycle sets iteration to 1, adds exactly 1 to
\* cycle_id, empties cycle_history and stores the given last request and
\* products in last_cycle_context.
C3_RotationBoundary ==
    /\ (cycleOp.name = "IncrementIteration" /\ incCalls <= MaxIterations - 1) =>
          /\ cycleOp.ok
          /\ cycleState.Iteration = incCalls + 1
          /\ cycleState = [cycleOp.pre EXCEPT !.Iteration = cycleOp.pre.Iteration + 1]
    /\ (cycleOp.name = "IncrementIteration" /\ incCalls >= MaxIterations) =>
          /\ ~cycleOp.ok
          /\ cycleState.Iteration = MaxIterations
          /\ cycleState = cycleOp.pre
    /\ (cycleOp.name = "StartNewCycle") =>
          /\ cycleState.Iteration = 1
          /\ cycleState.CycleID = cycleOp.pre.CycleID + 1
          /\ cycleState.CycleHistory = <<>>
          /\ cycleState.LastCycleContext.Set
          /\ cycleState.LastCycleContext.LastRequest = cycleOp.lastRequest
          /\ cycleState.LastCycleContext.Products = cycleOp.products

\* the 6th call has signalled "rotate" and StartNewCycle ran right after it
\* on a cycle that had accumulated history
C3_Witness ==
    /\ cycleOp.name = "StartNewCycle"
    /\ cycleOp.afterRotate
    /\ cycleOp.pre.Iteration = MaxIterations
    /\ cycleOp.pre.CycleHistory # <<>>
    /\ cycleOp.products # <<>>

\* C4: over any sequence of AddToCycleHistory, IncrementIteration and
\* StartNewCycle from the initial cycle state, 1 <= iteration <= MaxIterations
\* in every state, cycle_id never decreases and changes only in StartNewCycle
\* (by exactly +1), and AddToCycleHistory only appends one entry to
\* cycle_history.
C4_Step ==
    /\ 1 <= cycleState.Iteration /\ cycleState.Iteration <= MaxIterations
    /\ 1 <= cycleState'.Iteration /\ cycleState'.Iteration <= MaxIterations
    /\ cycleState'.CycleID >= cycleState.CycleID
    /\ (cycleState'.CycleID # cycleState.CycleID) =>
          /\ cycleOp'.name = "StartNewCycle"
          /\ cycleState'.CycleID = cycleState.CycleID + 1
    /\ (cycleOp'.name = "StartNewCycle") =>
          cycleState'.CycleID = cycleState.CycleID + 1
    /\ (cycleOp'.name = "AddToCycleHistory") =>
          /\ Len(cycleState'.CycleHistory) = Len(cycleState.CycleHistory) + 1
          /\ SubSeq(cycleState'.CycleHistory, 1, Len(cycleState.CycleHistory))
                = cycleState.CycleHistory
          /\ cycleState'.CycleHistory[Len(cycleState'.CycleHistory)]
                = [Role |-> cycleOp'.role, Content |-> cycleOp'.content]
          /\ cycleState' = [cycleState EXCEPT !.CycleHistory = cycleState'.CycleHistory]

C4_CycleInvariants == [][C4_Step]_vars

\* a second cycle at the iteration limit with an entry just appended
C4_Witness ==
    /\ cycleState.CycleID >= 2
    /\ cycleState.Iteration = MaxIterations
    /\ cycleOp.name = "AddToCycleHistory"

-----------------------------------------------------------------------------
(* Chat orchestrator: ChatProcessor.ProcessChat, src/unnamed/part_001      *)

\* configuration values (SessionService.GetMaxSearches, Config.AnonymousSearchLimit)
MaxSearches == 1
AnonymousSearchLimit == 1

\* bound on the number of turns a stored session accumulates
MaxMessageCount == 2

\* cap of the anonymous counter (it is unbounded when the quota read fails)
MaxAnonCount == AnonymousSearchLimit + 1

maxProcessingRetries == 2
SaveMaxAttempts == 3

Workers == {"w1", "w2"}
SerialWorkers == {"w1"}
SessionIDs == {"s1"}
\* the identifiers uuid.New() can return
GeneratedIDs == {"g1"}
AllSessionIDs == SessionIDs \cup GeneratedIDs
BrowserIDs == {"b1"}
Users == {"u1"}
NoUser == "nil"

TextAnonLimit == "You've used all 3 free searches! Please sign up or log in to continue searching for products."
TextSessionLimit == "You have reached the maximum number of searches. Please start a new search."
TextFallback == "I'm having trouble processing your request right now. Could you please rephrase your question or try again in a moment?"
TextNeedDetails == "I need more details about what product you're looking for. Could you be more specific?"
TextNoProducts == "Sorry, I couldn't find any products. Please try different keywords."
TextNoExact == "I couldn't find that exact product. Would you like to see similar alternatives?"
TextUnsupportedAPI == "I encountered an error processing your request. Please try again."
TextSaveFailed == "An error occurred while saving your conversation. Please try again."
TextPlaceholder == "..."

NoSession ==
    [Exists |-> FALSE, ID |-> "", UserID |-> NoUser, SearchCount |-> 0,
     Status |-> "idle", HasLastProduct |-> FALSE, MessageCount |-> 0,
     CycleState |-> InitializeCycleState]

\* SessionService.CreateSessionWithUser: a fresh session under the given id
CreateSessionWithUser(id, userID) ==
    [NoSession EXCEPT !.Exists = TRUE, !.ID = id, !.UserID = userID]

\* SessionService.StartNewSearchInMemory: reset SearchState and CycleState
StartNewSearchInMemory(session) ==
    [session EXCEPT !.SearchCount = 0, !.Status = "idle",
                    !.HasLastProduct = FALSE,
                    !.CycleState = InitializeCycleState]

NoSearchState ==
    [Set |-> FALSE, Status |-> "", CanContinue |-> FALSE, SearchCount |-> 0,
     MaxSearches |-> 0, AnonymousSearchUsed |-> 0, AnonymousSearchLimit |-> 0,
     RequiresAuthentication |-> FALSE, Message |-> ""]

NoResponse ==
    [Set |-> FALSE, Type |-> "", Output |-> "", QuickReplies |-> <<>>,
     Products |-> 0, MessageCount |-> 0, SearchState |-> NoSearchState,
     SessionID |-> "", Error |-> ""]

NoMessage == [Set |-> FALSE, Stored |-> FALSE, Content |-> "", Products |-> 0]

NoGemini ==
    [Set |-> FALSE, ResponseType |-> "", Output |-> "", QuickReplies |-> <<>>,
     SearchPhrase |-> "", Query |-> "unsupported"]

NoRequest ==
    [SessionID |-> "", UserID |-> NoUser, Message |-> "", NewSearch |-> FALSE,
     BrowserID |-> ""]

\* the requests a client can send
Requests ==
    [SessionID : SessionIDs \cup {""}, UserID : Users \cup {NoUser},
     Message : {"", "m"},
     NewSearch : BOOLEAN, BrowserID : BrowserIDs \cup {""}]

\* the requests explored: an empty message is rejected before any other
\* field is read, and an authenticated request never reads its browser id
ExploredRequests ==
    {req \in Requests :
        /\ (req.Message = "" =>
               /\ req.UserID = NoUser /\ req.BrowserID = "" /\ ~req.NewSearch
               /\ req.SessionID = "")
        /\ (req.UserID # NoUser => req.BrowserID = "")}

\* the answers the AI collaborator can return from ProcessWithUniversalPrompt:
\* response_type is non-empty but otherwise unconstrained; Query abstracts
\* API/Params: "unsupported" (other API or nil params), "noq" (missing or
\* empty "q"), "q" (google_shopping with a non-empty query)
GeminiOf(type, output, phrase, query) ==
    [Set |-> TRUE, ResponseType |-> type, Output |-> output,
     QuickReplies |-> <<"qr">>, SearchPhrase |-> phrase, Query |-> query]

GeminiResponses ==
    {GeminiOf(type, output, "", "unsupported") :
        type \in {"dialogue", "other"}, output \in {"", "o"}}
    \cup {GeminiOf("search", output, phrase, "unsupported") :
        output \in {"", "o"}, phrase \in {"", "q"}}
    \cup {GeminiOf("api_request", output, "", query) :
        output \in {"", "o"}, query \in {"unsupported", "noq", "q"}}

IdleTurn ==
    [pc |-> "idle", req |-> NoRequest, supplied |-> "", createFails |-> FALSE,
     session |-> NoSession,
     loaded |-> NoSession, anonAtStart |-> 0, getAnonErr |-> FALSE,
     anonymousSearchUsed |-> 0, finalGetAnonErr |-> FALSE,
     attempt |-> 0, gemini |-> NoGemini, response |-> NoResponse,
     userMessage |-> NoMessage, assistantMessage |-> NoMessage,
     search |-> "", saveFailures |-> 0, saved |-> FALSE, trace |-> <<>>,
     expired |-> FALSE, incrementErr |-> FALSE]

\* trace is the order in which the turn's events first happen: "user_msg"
\* (user message stored), "ai" (AI invoked), "search" (search collaborator
\* called), "assistant_msg" (assistant message store attempted), "save"
\* (session save attempted); a repeated event is recorded once
Log(trace, event) ==
    IF Len(trace) > 0 /\ trace[Len(trace)] = event THEN trace
    ELSE Append(trace, event)

IsAnonymous(req) == req.UserID = NoUser /\ req.BrowserID # ""

\* a plausible slip: the limit test uses > and lets one more search through
SessionLimitReached_OffByOne(session) == session.SearchCount > MaxSearches

\* ProcessChat, "Check search limit"
SessionLimitReached(session) == session.SearchCount >= MaxSearches

ErrorResponse(code) == [NoResponse EXCEPT !.Set = TRUE, !.Error = code]

AnonLimitResponse(session, used) ==
    [NoResponse EXCEPT
        !.Set = TRUE, !.Type = "text", !.Output = TextAnonLimit,
        !.MessageCount = session.MessageCount,
        !.SearchState =
            [Set |-> TRUE, Status |-> session.Status, CanContinue |-> FALSE,
             SearchCount |-> session.SearchCount, MaxSearches |-> MaxSearches,
             AnonymousSearchUsed |-> used,
             AnonymousSearchLimit |-> AnonymousSearchLimit,
             RequiresAuthentication |-> TRUE,
             Message |-> "Anonymous search limit reached - authentication required"]]

\* a plausible slip: the limit response still invites the client to continue
SessionLimitResponse_CanContinue(session, used) ==
    [NoResponse EXCEPT
        !.Set = TRUE, !.Type = "text", !.Output = TextSessionLimit,
        !.MessageCount = session.MessageCount,
        !.SearchState =
            [Set |-> TRUE, Status |-> session.Status,
             CanContinue |-> (session.SearchCount <= MaxSearches),
             SearchCount |-> session.SearchCount, MaxSearches |-> MaxSearches,
             AnonymousSearchUsed |-> used,
             AnonymousSearchLimit |-> AnonymousSearchLimit,
             RequiresAuthentication |-> FALSE,
             Message |-> "Search limit reached"]]

SessionLimitResponse(session, used) ==
    [NoResponse EXCEPT
        !.Set = TRUE, !.Type = "text", !.Output = TextSessionLimit,
        !.MessageCount = session.MessageCount,
        !.SearchState =
            [Set |-> TRUE, Status |-> session.Status, CanContinue |-> FALSE,
             SearchCount |-> session.SearchCount, MaxSearches |-> MaxSearches,
             AnonymousSearchUsed |-> used,
             AnonymousSearchLimit |-> AnonymousSearchLimit,
             RequiresAuthentication |-> FALSE,
             Message |-> "Search limit reached"]]

\* a plausible slip: the exhausted retries surface as an error result
FallbackResponse_AsError(session) ==
    [NoResponse EXCEPT !.Set = TRUE, !.Type = "error", !.Output = TextFallback,
                       !.Error = "processing_error"]

\* ProcessChat, "all processing attempts failed, using fallback response"
FallbackResponse(session) ==
    [NoResponse EXCEPT
        !.Set = TRUE, !.Type = "dialogue", !.Output = TextFallback,
        !.QuickReplies = <<"Start over", "Try again">>,
        !.MessageCount = session.MessageCount,
        !.SearchState =
            [NoSearchState EXCEPT
                !.Set = TRUE, !.Status = session.Status,
                !.CanContinue = (session.SearchCount < MaxSearches),
                !.SearchCount = session.SearchCount,
                !.MaxSearches = MaxSearches,
                !.Message = "Temporary processing issue"]]

SaveFailedResponse(session) ==
    [NoResponse EXCEPT !.Set = TRUE, !.Type = "error", !.Output = TextSaveFailed,
                       !.MessageCount = session.MessageCount,
                       !.Error = "session_save_failed"]

Done(t, response) == [t EXCEPT !.pc = "done", !.response = response]

\* the results that name the session carry SessionID: req.SessionID
WithSessionID(response, req) == [response EXCEPT !.SessionID = req.SessionID]

\* getOrCreateSession, existing session: link the session to the logged-in user
LinkUser(session, req) ==
    IF req.UserID # NoUser /\ session.UserID # req.UserID
    THEN [session EXCEPT !.UserID = req.UserID]
    ELSE session

\* a plausible slip: the AI is called without the user message being stored
StoreUserMessage_Skipped(t) ==
    [t EXCEPT
        !.session.MessageCount = @ + 1,
        !.session.CycleState = AddToCycleHistory(@, "user", t.req.Message)]

\* AddMessageInMemory(userMessage), IncrementMessageCountInMemory,
\* AddToCycleHistoryInMemory(session, "user", req.Message)
StoreUserMessage(t) ==
    [t EXCEPT
        !.userMessage = [Set |-> TRUE, Stored |-> TRUE,
                         Content |-> t.req.Message, Products |-> 0],
        !.trace = Log(@, "user_msg"),
        !.session.MessageCount = @ + 1,
        !.session.CycleState = AddToCycleHistory(@, "user", t.req.Message)]

\* a plausible slip: the failed store is only logged and the turn goes on
AddUserMessage_Tolerated(t, addMsgFails) ==
    IF addMsgFails
    THEN [t EXCEPT
             !.userMessage = [Set |-> TRUE, Stored |-> FALSE,
                              Content |-> t.req.Message, Products |-> 0],
             !.session.MessageCount = @ + 1,
             !.session.CycleState = AddToCycleHistory(@, "user", t.req.Message),
             !.pc = "ai"]
    ELSE [StoreUserMessage(t) EXCEPT !.pc = "ai"]

\* ProcessChat, "Store user message": the userMessage is built and handed to
\* AddMessageInMemory; when that fails the turn returns storage_error
AddUserMessage(t, addMsgFails) ==
    IF addMsgFails
    THEN Done([t EXCEPT
                  !.userMessage = [Set |-> TRUE, Stored |-> FALSE,
                                   Content |-> t.req.Message, Products |-> 0]],
              ErrorResponse("storage_error"))
    ELSE [StoreUserMessage(t) EXCEPT !.pc = "ai"]

\* a plausible slip: the counter is cleared together with the search state
\* when the request starts a new search
GetAnonymousSearchUsed_ClearedByNewSearch(req, anon, getAnonErr) ==
    IF IsAnonymous(req)
    THEN (IF getAnonErr \/ req.NewSearch THEN 0 ELSE anon[req.BrowserID])
    ELSE 0

\* ProcessChat, "Check anonymous search limit": the count read for the
\* browser; a failed read counts as 0 ("Continue on error, don't block user")
GetAnonymousSearchUsed(req, anon, getAnonErr) ==
    IF IsAnonymous(req)
    THEN (IF getAnonErr THEN 0 ELSE anon[req.BrowserID])
    ELSE 0

\* a plausible slip: the limit test uses > and lets one more turn through
AnonymousLimitReached_OffByOne(req, used) ==
    IsAnonymous(req) /\ used > AnonymousSearchLimit

\* ProcessChat, "Check if limit reached"
AnonymousLimitReached(req, used) ==
    IsAnonymous(req) /\ used >= AnonymousSearchLimit

\* a plausible slip: a session that is not found is replaced by a session
\* under a newly generated identifier
getOrCreateSession_NewIDOnMiss(req, st, newID, createFails) ==
    IF req.SessionID # "" /\ st[req.SessionID].Exists
    THEN [err |-> FALSE, req |-> req,
          session |-> LinkUser(st[req.SessionID], req), store |-> st]
    ELSE LET r == [req EXCEPT !.SessionID = newID]
             s == CreateSessionWithUser(newID, req.UserID)
         IN IF createFails
            THEN [err |-> TRUE, req |-> r, session |-> NoSession, store |-> st]
            ELSE [err |-> FALSE, req |-> r, session |-> s,
                  store |-> [st EXCEPT ![newID] = s]]

\* getOrCreateSession: the session of the request, the request with its
\* SessionID filled in, and the store after a creation. newID is the value of
\* uuid.New(), createFails the outcome of CreateSessionWithUser.
getOrCreateSession(req, st, newID, createFails) ==
    IF req.SessionID # ""
    THEN IF ~st[req.SessionID].Exists
         THEN LET s == CreateSessionWithUser(req.SessionID, req.UserID) IN
              IF createFails
              THEN [err |-> TRUE, req |-> req, session |-> NoSession, store |-> st]
              ELSE [err |-> FALSE, req |-> req, session |-> s,
                    store |-> [st EXCEPT ![req.SessionID] = s]]
         ELSE [err |-> FALSE, req |-> req,
               session |-> LinkUser(st[req.SessionID], req), store |-> st]
    ELSE LET r == [req EXCEPT !.SessionID = newID]
             s == CreateSessionWithUser(newID, req.UserID)
         IN IF createFails
            THEN [err |-> TRUE, req |-> r, session |-> NoSession, store |-> st]
            ELSE [err |-> FALSE, req |-> r, session |-> s,
                  store |-> [st EXCEPT ![newID] = s]]

\* ProcessChat from its entry to the start of the AI retry loop.
\* newID, createFails, getAnonErr, addMsgFails: outcomes of uuid.New(),
\* CreateSessionWithUser, GetAnonymousSearchCount and AddMessageInMemory.
\* loaded is what the store held under the session's id when it was looked up.
ProcessChatBegin(req, st, anon, newID, createFails, getAnonErr, addMsgFails) ==
    LET t0 == [IdleTurn EXCEPT
                  !.req = req, !.supplied = req.SessionID,
                  !.createFails = createFails,
                  !.anonAtStart = IF req.BrowserID # "" THEN anon[req.BrowserID] ELSE 0]
        g == getOrCreateSession(req, st, newID, createFails)
    IN
    IF req.Message = ""
    THEN [turn |-> Done(t0, ErrorResponse("validation_error")), store |-> st]
    ELSE IF g.err
    THEN [turn |-> Done([t0 EXCEPT !.req = g.req], ErrorResponse("session_error")),
          store |-> g.store]
    ELSE
      LET r == g.req
          s1 == IF r.NewSearch THEN StartNewSearchInMemory(g.session)
                ELSE g.session
          used == GetAnonymousSearchUsed(r, anon, getAnonErr)
          t1 == [t0 EXCEPT !.req = r, !.session = s1,
                           !.loaded = st[r.SessionID],
                           !.getAnonErr = getAnonErr,
                           !.anonymousSearchUsed = used]
      IN
      IF AnonymousLimitReached(r, used)
      THEN [turn |-> Done(t1, WithSessionID(AnonLimitResponse(s1, used), r)),
            store |-> g.store]
      ELSE IF SessionLimitReached(s1)
      THEN [turn |-> Done(t1, WithSessionID(SessionLimitResponse(s1, used), r)),
            store |-> g.store]
      ELSE [turn |-> AddUserMessage(t1, addMsgFails), store |-> g.store]

\* ProcessChat after a successful AI call: create assistantMessage and
\* response, then the branches that overwrite the output without searching
Interpret(t, g) ==
    LET t1 == [t EXCEPT
                  !.gemini = g,
                  !.assistantMessage = [Set |-> TRUE, Stored |-> FALSE,
                                        Content |-> g.Output, Products |-> 0],
                  !.response = [NoResponse EXCEPT
                                   !.Set = TRUE, !.Type = g.ResponseType,
                                   !.SessionID = t.req.SessionID,
                                   !.Output = g.Output,
                                   !.QuickReplies = g.QuickReplies,
                                   !.MessageCount = t.session.MessageCount + 1]]
    IN
    IF g.ResponseType = "search"
    THEN IF g.SearchPhrase = ""
         THEN [t1 EXCEPT !.response.Output = TextNeedDetails,
                         !.response.Type = "dialogue", !.pc = "finish"]
         ELSE [t1 EXCEPT !.pc = "search"]
    ELSE IF g.ResponseType = "api_request"
    THEN IF g.Query = "unsupported"
         THEN [t1 EXCEPT !.response.Output = TextUnsupportedAPI,
                         !.response.Type = "dialogue", !.pc = "finish"]
         ELSE IF g.Query = "noq"
         THEN [t1 EXCEPT !.response.Output = TextNeedDetails,
                         !.response.Type = "dialogue", !.pc = "finish"]
         ELSE [t1 EXCEPT !.pc = "search"]
    ELSE [t1 EXCEPT !.pc = "finish"]

\* one iteration of the AI retry loop (attempt is the loop variable); ok is
\* the outcome of ProcessWithUniversalPrompt, g its answer
AIAttempt(t, ok, g) ==
    LET t1 == [t EXCEPT !.trace = Log(@, "ai")] IN
    IF ok THEN Interpret([t1 EXCEPT !.attempt = 0], g)
    ELSE IF t.attempt = maxProcessingRetries
    THEN Done(t1, WithSessionID(FallbackResponse(t.session), t.req))
    ELSE [t1 EXCEPT !.attempt = @ + 1]

\* SerpService.validateRelevance: relevant when there is at least one item;
\* at most 10 items are kept
validateRelevance(items) ==
    [IsRelevant |-> items > 0, Products |-> IF items > 10 THEN 10 ELSE items]

\* a plausible slip: an empty result list is returned as a success
SearchProducts_ZeroIsSuccess(apiFails, items) ==
    IF apiFails THEN [err |-> TRUE, products |-> 0]
    ELSE [err |-> FALSE, products |-> validateRelevance(items).Products]

\* SerpService.SearchProducts: apiFails is the outcome of the SERP request
\* (after its retries), items the number of shopping results it returned
SearchProducts(apiFails, items) ==
    IF apiFails THEN [err |-> TRUE, products |-> 0]
    ELSE IF ~validateRelevance(items).IsRelevant
    THEN [err |-> TRUE, products |-> 0]
    ELSE [err |-> FALSE, products |-> validateRelevance(items).Products]

\* the sources of a search result: a cache hit, a failed SERP request, a SERP
\* answer with no shopping results, a SERP answer with one
SearchSources == {"cache", "api_error", "api_zero", "api_found"}

\* SerpService.SearchWithCache as called by performSearch: a cache hit returns
\* the cards stored by an earlier successful search
SearchWithCache(source) ==
    IF source = "cache" THEN [err |-> FALSE, products |-> 1]
    ELSE SearchProducts(source = "api_error",
                        IF source = "api_found" THEN 1 ELSE 0)

\* performSearch's result as ProcessChat tests it (searchErr != nil,
\* len(products) > 0, otherwise)
performSearch(source) ==
    LET r == SearchWithCache(source) IN
    IF r.err THEN "error" ELSE IF r.products > 0 THEN "found" ELSE "zero"

\* a plausible slip: the products are attached but the search is not counted
ProductsFound_NotCounted(t) ==
    [t EXCEPT !.response.Products = 1,
              !.session.HasLastProduct = TRUE,
              !.assistantMessage.Products = 1]

\* the session-side effects of a search that returned products
ProductsFound(t) ==
    [t EXCEPT !.response.Products = 1,
              !.session.HasLastProduct = TRUE,
              !.session.SearchCount = @ + 1,
              !.assistantMessage.Products = 1]

\* ProcessChat after performSearch returned; outcome is "error", "zero" or
\* "found"
SearchOutcome(t, outcome) ==
    LET t1 == [t EXCEPT !.trace = Log(@, "search"), !.pc = "finish"]
    IN
    IF outcome = "error"
    THEN [t1 EXCEPT !.response.Output = TextNoProducts, !.response.Type = "text"]
    ELSE IF outcome = "found"
    THEN IF t.gemini.ResponseType = "api_request"
         THEN [ProductsFound(t1) EXCEPT !.response.Output = t.gemini.Output]
         ELSE ProductsFound(t1)
    ELSE IF t.gemini.ResponseType = "api_request"
         THEN [t1 EXCEPT !.response.Output = TextNoExact,
                         !.response.Type = "dialogue"]
         ELSE t1

\* a plausible slip: the stored content keeps the AI's original output
SyncContent_Missing(t) ==
    IF t.response.Output = "" /\ t.assistantMessage.Content = ""
    THEN [t EXCEPT !.assistantMessage.Content = TextPlaceholder,
                   !.response.Output = TextPlaceholder]
    ELSE t

\* "Sync assistant message content with final response output"
SyncContent(t) ==
    IF t.response.Output # ""
    THEN [t EXCEPT !.assistantMessage.Content = t.response.Output]
    ELSE IF t.assistantMessage.Content = ""
    THEN [t EXCEPT !.assistantMessage.Content = TextPlaceholder,
                   !.response.Output = TextPlaceholder]
    ELSE t

\* IncrementCycleIterationInMemory followed by StartNewCycleInMemory when
\* the iteration budget is used up
AdvanceCycle(session, lastRequest) ==
    LET r == IncrementIteration(session.CycleState) IN
    IF ~r.ok
    THEN [session EXCEPT !.CycleState =
            StartNewCycle(r.state, lastRequest,
                          IF session.HasLastProduct THEN <<"p1">> ELSE <<>>)]
    ELSE [session EXCEPT !.CycleState = r.state]

\* ProcessChat from the content sync to just before the session save;
\* asstFails is the outcome of AddMessageInMemory(assistantMessage)
FinishTurn(t, asstFails) ==
    LET t1 == SyncContent(t)
        t2 == [t1 EXCEPT
                  !.assistantMessage.Stored = ~asstFails,
                  !.trace = Log(@, "assistant_msg"),
                  !.session.CycleState =
                      AddToCycleHistory(@, "assistant", t.gemini.Output)]
    IN [t2 EXCEPT
           !.session = [AdvanceCycle(t2.session, t.req.Message)
                           EXCEPT !.Status = "idle"],
           !.pc = "save"]

\* a plausible slip: can_continue looks at the session's count only, as the
\* fallback response does
FinalSearchState_CanContinueIgnoresAuth(t, used) ==
    LET requiresAuth == t.req.UserID = NoUser /\ used >= AnonymousSearchLimit IN
    [Set |-> TRUE, Status |-> t.session.Status,
     CanContinue |-> (t.session.SearchCount < MaxSearches),
     SearchCount |-> t.session.SearchCount, MaxSearches |-> MaxSearches,
     AnonymousSearchUsed |-> used,
     AnonymousSearchLimit |-> AnonymousSearchLimit,
     RequiresAuthentication |-> requiresAuth, Message |-> ""]

\* the SearchStateResponse built after the save; used is the real-time
\* anonymous count read back from the cache
FinalSearchState(t, used) ==
    LET requiresAuth == t.req.UserID = NoUser /\ used >= AnonymousSearchLimit IN
    [Set |-> TRUE, Status |-> t.session.Status,
     CanContinue |-> (t.session.SearchCount < MaxSearches /\ ~requiresAuth),
     SearchCount |-> t.session.SearchCount, MaxSearches |-> MaxSearches,
     AnonymousSearchUsed |-> used,
     AnonymousSearchLimit |-> AnonymousSearchLimit,
     RequiresAuthentication |-> requiresAuth, Message |-> ""]

\* one attempt of RetryWithBackoff(SaveSession); ok is the attempt's outcome,
\* saveFailures the attempts of this call that have failed
SaveAttempt(t, ok, used) ==
    LET t1 == [t EXCEPT !.trace = Log(@, "save")] IN
    IF ok
    THEN [t1 EXCEPT !.saved = TRUE, !.pc = "done", !.saveFailures = 0,
                    !.response.SearchState = FinalSearchState(t, used)]
    ELSE IF t.saveFailures + 1 = SaveMaxAttempts
    THEN Done([t1 EXCEPT !.saveFailures = @ + 1],
              WithSessionID(SaveFailedResponse(t.session), t.req))
    ELSE [t1 EXCEPT !.saveFailures = @ + 1]

ChatIdle ==
    /\ store = [s \in AllSessionIDs |-> NoSession]
    /\ anonCount = [b \in BrowserIDs |-> 0]
    /\ turn = [w \in Workers |-> IdleTurn]

\* the turns explored address the only session the store holds, or create one
\* in an empty store
OnlySession(id) == \A s \in AllSessionIDs \ {id} : ~store[s].Exists

\* the outcomes explored for a call that can fail: faults is BOOLEAN when
\* failures of the collaborators are explored and {FALSE} when they are not
Outcomes(faults, applies) == IF applies THEN faults ELSE {FALSE}

\* a connection's handler receives a chat request, one of reqs, and runs
\* ProcessChat up to the AI retry loop
BeginTurnIn(w, reqs, faults) ==
    /\ turn[w].pc = "idle"
    /\ \E req \in reqs :
       \E newID \in (IF req.Message # ""
                      THEN {g \in GeneratedIDs : ~store[g].Exists}
                      ELSE {""}),
          createFails \in Outcomes(faults,
                              /\ req.Message # ""
                              /\ (req.SessionID = "" \/ ~store[req.SessionID].Exists)),
          getAnonErr \in Outcomes(faults, IsAnonymous(req) /\ req.Message # ""),
          addMsgFails \in Outcomes(faults, req.Message # "") :
        LET r == ProcessChatBegin(req, store, anonCount, newID,
                                  createFails, getAnonErr, addMsgFails)
           IN /\ req.Message # "" =>
                    OnlySession(IF req.SessionID = "" THEN newID
                                ELSE req.SessionID)
              /\ r.turn.session.MessageCount <= MaxMessageCount
              /\ turn' = [turn EXCEPT ![w] = r.turn]
              /\ store' = r.store
    /\ UNCHANGED <<svcVars, anonCount, cycleVars, fanVars, libVars>>

BeginTurn(w) == BeginTurnIn(w, ExploredRequests, BOOLEAN)

\* one call of ProcessWithUniversalPrompt: it fails, or returns one of answers
CallAIIn(w, answers, faults) ==
    /\ turn[w].pc = "ai"
    /\ \E failed \in faults :
         IF failed
         THEN turn' = [turn EXCEPT ![w] = AIAttempt(turn[w], FALSE, NoGemini)]
         ELSE \E g \in answers :
                turn' = [turn EXCEPT ![w] = AIAttempt(turn[w], TRUE, g)]
    /\ UNCHANGED <<svcVars, store, anonCount, cycleVars, fanVars, libVars>>

CallAI(w) == CallAIIn(w, GeminiResponses, BOOLEAN)

PerformSearchIn(w, sources, faults) ==
    /\ turn[w].pc = "search"
    /\ IsAnonymous(turn[w].req) => anonCount[turn[w].req.BrowserID] < MaxAnonCount
    /\ \E source \in sources :
       \E incFails \in Outcomes(faults, /\ performSearch(source) = "found"
                                        /\ IsAnonymous(turn[w].req)) :
        /\ turn' = [turn EXCEPT ![w] =
                       SearchOutcome([turn[w] EXCEPT !.search = source,
                                                     !.incrementErr = incFails],
                                     performSearch(source))]
        /\ anonCount' =
             IF performSearch(source) = "found" /\ IsAnonymous(turn[w].req)
                /\ ~incFails
             THEN [anonCount EXCEPT ![turn[w].req.BrowserID] = @ + 1]
             ELSE anonCount
    /\ UNCHANGED <<svcVars, store, cycleVars, fanVars, libVars>>

PerformSearch(w) == PerformSearchIn(w, SearchSources, BOOLEAN)

FinishIn(w, faults) ==
    /\ turn[w].pc = "finish"
    /\ \E asstFails \in faults :
        turn' = [turn EXCEPT ![w] = FinishTurn(turn[w], asstFails)]
    /\ UNCHANGED <<svcVars, store, anonCount, cycleVars, fanVars, libVars>>

Finish(w) == FinishIn(w, BOOLEAN)

SaveSessionIn(w, faults) ==
    /\ turn[w].pc = "save"
    /\ \E saveFails \in faults :
       \E getAnonErr \in Outcomes(faults, ~saveFails /\ IsAnonymous(turn[w].req)) :
        LET ok == ~saveFails
            used == IF IsAnonymous(turn[w].req) /\ ~getAnonErr
                    THEN anonCount[turn[w].req.BrowserID] ELSE 0
            t1 == [SaveAttempt(turn[w], ok, used)
                      EXCEPT !.finalGetAnonErr = getAnonErr]
        IN /\ turn' = [turn EXCEPT ![w] = t1]
           /\ store' = IF ok THEN [store EXCEPT ![t1.session.ID] = t1.session]
                       ELSE store
    /\ UNCHANGED <<svcVars, anonCount, cycleVars, fanVars, libVars>>

SaveSession(w) == SaveSessionIn(w, BOOLEAN)

\* ProcessChat has returned its result; the goroutine is free for the next
\* request
ReturnResult(w) ==
    /\ turn[w].pc = "done"
    /\ turn' = [turn EXCEPT ![w] = IdleTurn]
    /\ UNCHANGED <<svcVars, store, anonCount, cycleVars, fanVars, libVars>>

\* the background expiry sweep removes a stored session
ExpireSession ==
    /\ \A w \in Workers : turn[w].pc = "idle"
    /\ \E s \in AllSessionIDs :
        /\ store[s].Exists
        /\ store' = [store EXCEPT ![s] = NoSession]
    /\ UNCHANGED <<svcVars, anonCount, turn, cycleVars, fanVars, libVars>>

Next ==
    \/ \E w \in SerialWorkers : BeginTurn(w)
    \/ \E w \in SerialWorkers : CallAI(w)
    \/ \E w \in SerialWorkers : PerformSearch(w)
    \/ \E w \in SerialWorkers : Finish(w)
    \/ \E w \in SerialWorkers : SaveSession(w)
    \/ \E w \in SerialWorkers : ReturnResult(w)
    \/ ExpireSession

-----------------------------------------------------------------------------
(* The turn's deadline                                                     *)

\* ProcessChat's ctx (context.WithTimeout, 60 s) reaches its deadline while
\* the turn is running; expired is ctx.Err() # nil
DeadlineExpires(w) ==
    /\ turn[w].pc \notin {"idle", "done"}
    /\ ~turn[w].expired
    /\ turn' = [turn EXCEPT ![w].expired = TRUE]
    /\ UNCHANGED <<svcVars, store, anonCount, cycleVars, fanVars, libVars>>

\* serial turns on a clock: the deadline may pass at any point of a turn.
\* ctx is handed to the logger and to RetryWithBackoff(SaveSession) only, so
\* no guard of the AI loop or of performSearch reads it
NextDeadline ==
    \/ \E w \in SerialWorkers : BeginTurn(w)
    \/ \E w \in SerialWorkers : DeadlineExpires(w)
    \/ \E w \in SerialWorkers : CallAI(w)
    \/ \E w \in SerialWorkers : PerformSearch(w)
    \/ \E w \in SerialWorkers : Finish(w)
    \/ \E w \in SerialWorkers : SaveSession(w)
    \/ \E w \in SerialWorkers : ReturnResult(w)
    \/ ExpireSession

-----------------------------------------------------------------------------
(* Concurrent requests                                                     *)

\* two requests handled at the same time, each by its own goroutine (two
\* connections, or two HTTP requests): one turn per worker, interleaved at the
\* calls to the collaborators
\* and with collaborators that do not fail
ConcurrentRequests ==
    {req \in ExploredRequests : req.Message # "" /\ req.SessionID # ""}

ConcurrentAnswers ==
    {GeminiOf("dialogue", "o", "", "unsupported"),
     GeminiOf("search", "o", "q", "unsupported")}

NoFaults == {FALSE}

NextConcurrent ==
    \/ \E w \in Workers : BeginTurnIn(w, ConcurrentRequests, NoFaults)
    \/ \E w \in Workers : CallAIIn(w, ConcurrentAnswers, NoFaults)
    \/ \E w \in Workers : PerformSearchIn(w, {"api_found", "api_zero"}, NoFaults)
    \/ \E w \in Workers : FinishIn(w, NoFaults)
    \/ \E w \in Workers : SaveSessionIn(w, NoFaults)

-----------------------------------------------------------------------------
(* Realtime fan-out layer: src/backend/internal/handlers/websocket.go      *)

MaxChats == 1          \* bound: chat messages received in SpecFanout

Procs == {"p1", "p2"}
Conns == {"c1", "c2", "c3"}
\* the users of the fan-out layer and the access tokens a message can carry:
\* none, an invalid one, a valid one of a user
FanUsers == {"u1", "u2"}
Tokens == {"", "bad", "u1"}
RegistryTokens == {"", "bad", "u1", "u2"}
Absent == "absent"

\* the process whose HandleWebSocket serves the connection
Home(c) == IF c = "c3" THEN "p2" ELSE "p1"

\* JWTService.ValidateAccessToken: the user of a valid token, nil otherwise
ValidateAccessToken(tok) == IF tok \in FanUsers THEN tok ELSE NoUser

\* a WSHandler's registries: clients maps a connection id to its Client's
\* UserID (Absent when the id is not in the map); userKeys are the keys of the
\* map userConns and userConns[u] the connection ids under key u (empty when
\* u is not a key)
NoRegistry ==
    [clients |-> [c \in Conns |-> Absent],
     userKeys |-> {},
     userConns |-> [u \in FanUsers |-> {}]]

\* delete(connSet, id), and delete(h.userConns, user) when the set is empty
DeleteFromUserConns(h, user, id) ==
    IF user \in h.userKeys
    THEN LET connSet == h.userConns[user] \ {id} IN
         [h EXCEPT !.userConns[user] = connSet,
                   !.userKeys = IF connSet = {} THEN @ \ {user} ELSE @]
    ELSE h

\* h.userConns[user][id] = true, after make() when user is not a key
AddToUserConns(h, user, id) ==
    [h EXCEPT !.userKeys = @ \cup {user},
              !.userConns[user] = @ \cup {id}]

NewConn == [pc |-> "new", userID |-> NoUser, chatUser |-> NoUser, chat |-> 0]

addClient(h, id) == [h EXCEPT !.clients[id] = NoUser]

\* a plausible slip: the connection stays in its user's connection set
removeClient_KeepsUserEntry(h, id) ==
    IF h.clients[id] = Absent
    THEN h
    ELSE [h EXCEPT !.clients[id] = Absent]

removeClient(h, id) ==
    IF h.clients[id] = Absent
    THEN h
    ELSE LET user == h.clients[id]
             removed == IF user # NoUser THEN DeleteFromUserConns(h, user, id)
                        ELSE h
         IN [removed EXCEPT !.clients[id] = Absent]

\* a plausible slip: the connection is not taken out of its old user's set
updateClientUser_KeepsOldEntry(h, clientID, userID) ==
    IF h.clients[clientID] = Absent
    THEN h
    ELSE LET added == IF userID # NoUser
                      THEN AddToUserConns(h, userID, clientID)
                      ELSE h
         IN [added EXCEPT !.clients[clientID] = userID]

updateClientUser(h, clientID, userID) ==
    IF h.clients[clientID] = Absent
    THEN h
    ELSE LET old == h.clients[clientID]
             removed == IF old # NoUser
                        THEN DeleteFromUserConns(h, old, clientID)
                        ELSE h
             added == IF userID # NoUser
                      THEN AddToUserConns(removed, userID, clientID)
                      ELSE removed
         IN [added EXCEPT !.clients[clientID] = userID]

\* the ids generated for the k-th chat message
UserMessageID(k) == 2 * k - 1
AssistantMessageID(k) == 2 * k

\* a message id is written as a number: 0 is the empty string, a positive
\* number n the canonical text of the UUID n, a negative number a text that
\* is not a UUID
NoMessageID == 0

\* uuid.Parse
ParseUUID(s) == [err |-> s <= 0, id |-> IF s > 0 THEN s ELSE 0]

\* a uuid.New() of ProcessChat: different from every id handleChat generated
NewUUID(id) == id + 2 * MaxChats + 2

\* a plausible slip: ProcessChat ignores the id it was handed
MessageIDFor_AlwaysNew(supplied, generated) == generated

\* ProcessChat, "Use pre-generated ID if provided, otherwise generate new
\* one": the id of the message built from the request's id
MessageIDFor(supplied, generated) ==
    IF supplied # NoMessageID
    THEN IF ParseUUID(supplied).err THEN generated ELSE ParseUUID(supplied).id
    ELSE generated

\* how ProcessChat ends for handleChat: an error before anything is stored
\* (validation, session, storage_error), a limit response, the fallback after
\* the AI failed, an answer whose assistant message was stored or was not,
\* and session_save_failed
ProcessChatOutcomes ==
    {"error", "limit", "fallback", "answered", "answered_unstored", "save_failed"}

FailedOutcomes == {"error", "save_failed"}

\* the ids under which a turn with that outcome leaves its two messages in
\* the saved session, NoMessageID for a message it does not leave there
StoredMessageIDs(outcome, userID, assistantID, newUser, newAssistant) ==
    [user |-> IF outcome \in {"fallback", "answered", "answered_unstored"}
              THEN MessageIDFor(userID, newUser) ELSE NoMessageID,
     assistant |-> IF outcome = "answered"
                   THEN MessageIDFor(assistantID, newAssistant)
                   ELSE NoMessageID]

WSResponse(type, id) == [Type |-> type, MessageID |-> id, Error |-> ""]

\* the frame of sendError and of sendRateLimitError
ErrorFrame(code) == [Type |-> "error", MessageID |-> 0, Error |-> code]

\* what the session signer makes of the session id of a chat message: not a
\* signed id, a signed id whose signature or expiry check fails, a valid signed
\* id without an embedded user, a valid signed id of u1 or of u2
SessionIDForms == {"plain", "invalid", "signed", "signed_u1", "signed_u2"}

\* Signer.IsSignedSessionID
IsSignedSessionID(sid) == sid # "plain"

\* Signer.VerifyAndExtractSessionID: err, and the user embedded in the
\* signature (nil when there is none)
VerifyAndExtractSessionID(sid) ==
    [err |-> sid = "invalid",
     embeddedUserID |-> IF sid = "signed_u1" THEN "u1"
                        ELSE IF sid = "signed_u2" THEN "u2"
                        ELSE NoUser]

\* a plausible slip: the embedded user is extracted but not compared
checkSignedSession_OwnerUnchecked(sid, userID) ==
    IF IsSignedSessionID(sid) /\ VerifyAndExtractSessionID(sid).err
    THEN "invalid_session"
    ELSE ""

\* handleChat, "Extract base session ID from signed session ID": the error
\* code the message is rejected with, "" when it is accepted
checkSignedSession(sid, userID) ==
    IF IsSignedSessionID(sid)
    THEN LET v == VerifyAndExtractSessionID(sid) IN
         IF v.err THEN "invalid_session"
         ELSE IF /\ v.embeddedUserID # NoUser /\ userID # NoUser
                 /\ v.embeddedUserID # userID
         THEN "session_ownership"
         ELSE ""
    ELSE ""

\* how a chat message stands with respect to the session signature: its
\* signed session id fails verification ("invalid"), its embedded owner is
\* another user than the authenticated one ("mismatch"), or neither ("ok")
SignatureOf(sid, userID) ==
    IF sid = "invalid" THEN "invalid"
    ELSE IF /\ userID # NoUser
            /\ sid \in {"signed_" \o u : u \in FanUsers \ {userID}}
    THEN "mismatch"
    ELSE "ok"

\* Conn.WriteJSON of one frame to each of the target connections
WriteJSON(inb, targets, response) ==
    [c \in Conns |-> IF c \in targets THEN Append(inb[c], response) ELSE inb[c]]

\* PubSubService.BroadcastToAllUsers: publish on the one topic every process
\* subscribes to, the publishing process included
BroadcastToAllUsers(b, serverID, userID, response) ==
    [q \in Procs |->
        Append(b[q], [ServerID |-> serverID, UserID |-> userID,
                      EventType |-> response.Type, Payload |-> response])]

\* both legs of a broadcast made by process p; pubFails is the outcome of the
\* publish, whose error is only logged
broadcastToUser(p, reg, inb, b, userID, response, excludeClientID, pubFails) ==
    LET h == reg[p]
        targets == {cid \in h.userConns[userID] :
                       cid # excludeClientID /\ h.clients[cid] # Absent}
    IN [inbox |-> WriteJSON(inb, targets, response),
        bus |-> IF pubFails THEN b
                ELSE BroadcastToAllUsers(b, p, userID, response)]

\* a plausible slip: a process without a local connection of the user passes
\* the publication on
handleBroadcastMessage_Republishes(p, reg, inb, b, msg) ==
    LET h == reg[p]
        targets == {cid \in h.userConns[msg.UserID] : h.clients[cid] # Absent}
    IN [inbox |-> WriteJSON(inb, targets, msg.Payload),
        bus |-> IF msg.UserID \in h.userKeys THEN b
                ELSE BroadcastToAllUsers(b, p, msg.UserID, msg.Payload)]

\* the subscriber callback of process p for one publication: the payload is
\* written to the local connections of the user, or dropped when the user is
\* not a key of userConns; nothing is published
handleBroadcastMessage(p, reg, inb, b, msg) ==
    LET h == reg[p]
        targets == {cid \in h.userConns[msg.UserID] : h.clients[cid] # Absent}
    IN [inbox |-> IF msg.UserID \in h.userKeys
                  THEN WriteJSON(inb, targets, msg.Payload)
                  ELSE inb,
        bus |-> b]

\* HandleWebSocket lines 141-153: a message carrying a valid token of a user
\* other than the connection's current one re-associates the connection
Reassociate(reg, cn, c, tok) ==
    LET user == ValidateAccessToken(tok) IN
    IF user # NoUser /\ cn[c].userID # user
    THEN [wsHandler |-> [reg EXCEPT ![Home(c)] = updateClientUser(@, c, user)],
          conn |-> [cn EXCEPT ![c].userID = user]]
    ELSE [wsHandler |-> reg, conn |-> cn]

\* the connections registered for the user anywhere, other than c
OtherConnsOf(reg, user, c) ==
    {d \in Conns \ {c} : reg[Home(d)].clients[d] = user}

FanoutIdle ==
    /\ wsHandler = [p \in Procs |-> NoRegistry]
    /\ conn = [c \in Conns |-> NewConn]
    /\ inbox = [c \in Conns |-> <<>>]
    /\ bus = [p \in Procs |-> <<>>]
    /\ chats = <<>>

\* HandleWebSocket up to its read loop
Connect(c) ==
    /\ conn[c].pc = "new"
    /\ conn' = [conn EXCEPT ![c].pc = "idle"]
    /\ wsHandler' = [wsHandler EXCEPT ![Home(c)] = addClient(@, c)]
    /\ UNCHANGED <<svcVars, inbox, bus, chats, cycleVars, chatVars, libVars>>

\* ReadJSON fails, the loop ends and the deferred removeClient runs
Disconnect(c) ==
    /\ conn[c].pc = "idle"
    /\ conn' = [conn EXCEPT ![c].pc = "closed"]
    /\ wsHandler' = [wsHandler EXCEPT ![Home(c)] = removeClient(@, c)]
    /\ UNCHANGED <<svcVars, inbox, bus, chats, cycleVars, chatVars, libVars>>

\* a message other than chat that carries a token, one of toks, which
\* re-associates the connection (the message's own handler is outside this
\* model)
AuthenticateIn(c, toks) ==
    /\ conn[c].pc = "idle"
    /\ \E tok \in toks :
        LET r == Reassociate(wsHandler, conn, c, tok) IN
        /\ r.conn # conn
        /\ wsHandler' = r.wsHandler
        /\ conn' = r.conn
    /\ UNCHANGED <<svcVars, inbox, bus, chats, cycleVars, chatVars, libVars>>

Authenticate(c) == AuthenticateIn(c, Tokens)

\* a chat message is read: re-association, handleMessage and handleChat up to
\* the ProcessChat call. limited is the outcome of the rate limiter, sid what
\* the signer makes of the message's session id
HandleChatBegin(c) ==
    /\ conn[c].pc = "idle"
    /\ Len(chats) < MaxChats
    /\ \E tok \in Tokens, limited \in BOOLEAN, sid \in SessionIDForms :
       LET user == ValidateAccessToken(tok)
           code == IF limited THEN "rate_limit_exceeded"
                   ELSE checkSignedSession(sid, user)
       IN
       \E pubFails \in (IF code = "" /\ user # NoUser THEN BOOLEAN ELSE {FALSE}) :
        LET r == Reassociate(wsHandler, conn, c, tok)
            k == Len(chats) + 1
            sent == broadcastToUser(Home(c), r.wsHandler, inbox, bus, user,
                        WSResponse("user_message_sync", UserMessageID(k)),
                        c, pubFails)
        IN /\ wsHandler' = r.wsHandler
           /\ chats' = Append(chats,
                  [Origin |-> c, UserID |-> user,
                   Peers |-> IF user # NoUser
                             THEN OtherConnsOf(r.wsHandler, user, c)
                             ELSE {},
                   Limited |-> limited,
                   Signature |-> SignatureOf(sid, user),
                   StoredUser |-> NoMessageID,
                   StoredAssistant |-> NoMessageID,
                   UserSync |-> (code = "" /\ user # NoUser),
                   AssistantSync |-> FALSE])
           /\ IF code # ""
              THEN /\ inbox' = WriteJSON(inbox, {c}, ErrorFrame(code))
                   /\ bus' = bus
                   /\ conn' = r.conn
              ELSE /\ inbox' = IF user # NoUser THEN sent.inbox ELSE inbox
                   /\ bus' = IF user # NoUser THEN sent.bus ELSE bus
                   /\ conn' = [r.conn EXCEPT ![c].pc = "chat",
                                             ![c].chatUser = user,
                                             ![c].chat = k]
    /\ UNCHANGED <<svcVars, cycleVars, chatVars, libVars>>

\* ProcessChat returns and handleChat runs to its end. outcome is how the
\* turn ended, ok that result.Error is nil; the messages are stored under
\* the ids ProcessChat makes of the two ids handleChat generated upfront
HandleChatEnd(c) ==
    /\ conn[c].pc = "chat"
    /\ \E outcome \in ProcessChatOutcomes :
       \E pubFails \in (IF outcome \notin FailedOutcomes /\ conn[c].chatUser # NoUser
                         THEN BOOLEAN ELSE {FALSE}) :
        LET ok == outcome \notin FailedOutcomes
            k == conn[c].chat
            id == AssistantMessageID(k)
            stored == StoredMessageIDs(outcome, UserMessageID(k), id,
                                       NewUUID(UserMessageID(k)), NewUUID(id))
            replied == WriteJSON(inbox, {c}, WSResponse("response", id))
            sent == broadcastToUser(Home(c), wsHandler, replied, bus,
                        conn[c].chatUser,
                        WSResponse("assistant_message_sync", id), c, pubFails)
        IN /\ inbox' = IF ~ok THEN WriteJSON(inbox, {c}, ErrorFrame("chat_error"))
                       ELSE IF conn[c].chatUser # NoUser THEN sent.inbox
                       ELSE replied
           /\ bus' = IF ok /\ conn[c].chatUser # NoUser THEN sent.bus ELSE bus
           /\ chats' = [chats EXCEPT ![k].StoredUser = stored.user,
                                     ![k].StoredAssistant = stored.assistant,
                                     ![k].AssistantSync =
                                         (ok /\ conn[c].chatUser # NoUser)]
    /\ conn' = [conn EXCEPT ![c].pc = "idle"]
    /\ UNCHANGED <<svcVars, wsHandler, cycleVars, chatVars, libVars>>

\* process p's subscriber takes the next publication off the topic
HandleBroadcast(p) ==
    /\ bus[p] # <<>>
    /\ LET r == handleBroadcastMessage(p, wsHandler, inbox,
                                       [bus EXCEPT ![p] = Tail(@)], Head(bus[p]))
       IN inbox' = r.inbox /\ bus' = r.bus
    /\ UNCHANGED <<svcVars, wsHandler, conn, chats, cycleVars, chatVars, libVars>>

\* the connection bookkeeping alone: connections open, authenticate as one
\* user or another, and close
NextRegistry ==
    \/ \E c \in Conns : Connect(c)
    \/ \E c \in Conns : Disconnect(c)
    \/ \E c \in Conns : AuthenticateIn(c, RegistryTokens)

NextFanout ==
    \/ \E c \in Conns : Connect(c)
    \/ \E c \in Conns : Disconnect(c)
    \/ \E c \in Conns : Authenticate(c)
    \/ \E c \in Conns : HandleChatBegin(c)
    \/ \E c \in Conns : HandleChatEnd(c)
    \/ \E p \in Procs : HandleBroadcast(p)

-----------------------------------------------------------------------------
(* Text functions of the AI client: src/backend/internal/services/gemini.go *)

\* a text is a sequence of one-character strings; positions are 1-based and
\* 0 stands for Go's -1 ("not found")
MaxTextLen == 3

TextChars == {"{", "}", "[", "]", "\"", "\\", ",", "a", " "}

\* the backquote character (written as a word: a TLA+ string cannot hold it)
Backquote == "backquote"

Fence == <<Backquote, Backquote, Backquote>>
FenceJSON == Fence \o <<"j", "s", "o", "n">>

IsSpace(c) == c \in {" ", "\n"}

RECURSIVE TrimLeft(_)
TrimLeft(t) ==
    IF t # <<>> /\ IsSpace(Head(t)) THEN TrimLeft(Tail(t)) ELSE t

RECURSIVE TrimRight(_)
TrimRight(t) ==
    IF t # <<>> /\ IsSpace(t[Len(t)])
    THEN TrimRight(SubSeq(t, 1, Len(t) - 1)) ELSE t

\* strings.TrimSpace
TrimSpace(t) == TrimRight(TrimLeft(t))

\* strings.HasPrefix
HasPrefix(t, sub) == Len(t) >= Len(sub) /\ SubSeq(t, 1, Len(sub)) = sub

\* strings.Index: the first position where sub occurs in t
Index(t, sub) ==
    LET hits == {p \in 1..(Len(t) - Len(sub) + 1) :
                    SubSeq(t, p, p + Len(sub) - 1) = sub}
    IN IF hits = {} THEN 0 ELSE CHOOSE p \in hits : \A q \in hits : p <= q

\* strings.LastIndex for a one-character sub
LastIndex(t, c) ==
    LET hits == {p \in 1..Len(t) : t[p] = c}
    IN IF hits = {} THEN 0 ELSE CHOOSE p \in hits : \A q \in hits : p >= q

\* t[from:], 1-based
From(t, from) == SubSeq(t, from, Len(t))

\* the scan loop of extractJSONFromText from position i: the position of the
\* '}' that brings braceCount back to 0, or 0 when the text ends first
RECURSIVE FirstObjectEnd(_, _, _, _, _)
FirstObjectEnd(t, i, braceCount, inString, escapeNext) ==
    IF i > Len(t) THEN 0
    ELSE IF escapeNext THEN FirstObjectEnd(t, i + 1, braceCount, inString, FALSE)
    ELSE IF t[i] = "\\" THEN FirstObjectEnd(t, i + 1, braceCount, inString, TRUE)
    ELSE IF t[i] = "\"" THEN FirstObjectEnd(t, i + 1, braceCount, ~inString, FALSE)
    ELSE IF ~inString /\ t[i] = "{"
    THEN FirstObjectEnd(t, i + 1, braceCount + 1, inString, FALSE)
    ELSE IF ~inString /\ t[i] = "}"
    THEN IF braceCount - 1 = 0 THEN i
         ELSE FirstObjectEnd(t, i + 1, braceCount - 1, inString, FALSE)
    ELSE FirstObjectEnd(t, i + 1, braceCount, inString, FALSE)

\* a plausible slip: the object is taken to end at the last '}' of the text
extractJSONFromText_Greedy(text) ==
    LET t == TrimSpace(text)
        first == Index(t, <<"{">>)
    IN IF first = 0 \/ LastIndex(t, "}") < first THEN t
       ELSE SubSeq(t, first, LastIndex(t, "}"))

\* GeminiService.extractJSONFromText
extractJSONFromText(text) ==
    LET t == TrimSpace(text)
        first == Index(t, <<"{">>)
        e == FirstObjectEnd(t, first, 0, FALSE, FALSE)
        start == Index(t, FenceJSON)
        rest == From(t, start + 7)
        end == Index(rest, Fence)
    IN IF first = 0 THEN t
       ELSE IF e # 0 THEN SubSeq(t, first, e)
       ELSE IF start # 0 /\ end # 0 THEN TrimSpace(SubSeq(rest, 1, end - 1))
       ELSE t

\* the counting loop of attemptJSONRepair: occurrences of c outside string
\* literals, from position i
RECURSIVE StructuralCount(_, _, _, _, _)
StructuralCount(t, c, i, inString, escapeNext) ==
    IF i > Len(t) THEN 0
    ELSE IF escapeNext THEN StructuralCount(t, c, i + 1, inString, FALSE)
    ELSE IF t[i] = "\\" THEN StructuralCount(t, c, i + 1, inString, TRUE)
    ELSE IF t[i] = "\"" THEN StructuralCount(t, c, i + 1, ~inString, FALSE)
    ELSE (IF ~inString /\ t[i] = c THEN 1 ELSE 0)
         + StructuralCount(t, c, i + 1, inString, FALSE)

Count(t, c) == StructuralCount(t, c, 1, FALSE, FALSE)

\* the quote-counting loop of attemptJSONRepair: unescaped quotes from i
RECURSIVE QuoteCount(_, _, _)
QuoteCount(t, i, escapeNext) ==
    IF i > Len(t) THEN 0
    ELSE IF escapeNext THEN QuoteCount(t, i + 1, FALSE)
    ELSE IF t[i] = "\\" THEN QuoteCount(t, i + 1, TRUE)
    ELSE (IF t[i] = "\"" THEN 1 ELSE 0) + QuoteCount(t, i + 1, FALSE)

\* n copies of c
Repeat(c, n) == [i \in 1..n |-> c]

\* attemptJSONRepair: the numbers of brackets and braces to append are
\* counted before the text is cut back to its last comma
attemptJSONRepair(text) ==
    LET t == TrimSpace(text)
        openBraces == Count(t, "{")
        closeBraces == Count(t, "}")
        openBrackets == Count(t, "[")
        closeBrackets == Count(t, "]")
        lastCommaPos == LastIndex(t, ",")
        t1 == IF openBrackets > closeBrackets /\ lastCommaPos > 1
              THEN SubSeq(t, 1, lastCommaPos - 1) ELSE t
        t2 == IF QuoteCount(t1, 1, FALSE) % 2 # 0 THEN t1 \o <<"\"">> ELSE t1
        missingBrackets ==
            IF openBrackets > closeBrackets
            THEN openBrackets - closeBrackets ELSE 0
        missingBraces ==
            IF openBraces > closeBraces THEN openBraces - closeBraces ELSE 0
    IN IF openBraces = closeBraces /\ openBrackets = closeBrackets THEN t
       ELSE t2 \o Repeat("]", missingBrackets) \o Repeat("}", missingBraces)

\* the scan loop of removeDuplicateJSON: the position of the '}' at which
\* braceCount and bracketCount are both 0, or 0 when the text ends first
RECURSIVE CompleteObjectEnd(_, _, _, _, _, _)
CompleteObjectEnd(t, i, braceCount, bracketCount, inString, escapeNext) ==
    IF i > Len(t) THEN 0
    ELSE IF escapeNext
    THEN CompleteObjectEnd(t, i + 1, braceCount, bracketCount, inString, FALSE)
    ELSE IF t[i] = "\\"
    THEN CompleteObjectEnd(t, i + 1, braceCount, bracketCount, inString, TRUE)
    ELSE IF t[i] = "\""
    THEN CompleteObjectEnd(t, i + 1, braceCount, bracketCount, ~inString, FALSE)
    ELSE IF inString
    THEN CompleteObjectEnd(t, i + 1, braceCount, bracketCount, inString, FALSE)
    ELSE IF t[i] = "{"
    THEN CompleteObjectEnd(t, i + 1, braceCount + 1, bracketCount, inString, FALSE)
    ELSE IF t[i] = "}"
    THEN IF braceCount - 1 = 0 /\ bracketCount = 0 THEN i
         ELSE CompleteObjectEnd(t, i + 1, braceCount - 1, bracketCount,
                                inString, FALSE)
    ELSE IF t[i] = "["
    THEN CompleteObjectEnd(t, i + 1, braceCount, bracketCount + 1, inString, FALSE)
    ELSE IF t[i] = "]"
    THEN CompleteObjectEnd(t, i + 1, braceCount, bracketCount - 1, inString, FALSE)
    ELSE CompleteObjectEnd(t, i + 1, braceCount, bracketCount, inString, FALSE)

\* removeDuplicateJSON's count of the quotes before the second brace: a
\* quote counts when an even number of backslashes precedes it
RECURSIVE QuotesBefore(_, _, _)
QuotesBefore(t, i, escapeCount) ==
    IF i > Len(t) THEN 0
    ELSE IF t[i] = "\\" THEN QuotesBefore(t, i + 1, escapeCount + 1)
    ELSE IF t[i] = "\"" /\ escapeCount % 2 = 0
    THEN 1 + QuotesBefore(t, i + 1, escapeCount)
    ELSE QuotesBefore(t, i + 1, 0)

Max(a, b) == IF a > b THEN a ELSE b

\* removeDuplicateJSON
removeDuplicateJSON(text) ==
    LET t == TrimSpace(text)
        first == Index(t, <<"{">>)
        e == CompleteObjectEnd(t, first, 0, 0, FALSE, FALSE)
        second == Index(From(t, first + 1), <<"{">>)
        actualSecond == first + second
        beforeSecond == SubSeq(t, first, actualSecond - 1)
        head == SubSeq(t, 1, actualSecond - 1)
        cutPoint == Max(LastIndex(head, ","), LastIndex(head, "["))
    IN IF first = 0 THEN t
       ELSE IF e # 0 THEN SubSeq(t, first, e)
       ELSE IF /\ second # 0
               /\ QuotesBefore(beforeSecond, 1, 0) % 2 = 0
               /\ cutPoint > first
       THEN attemptJSONRepair(SubSeq(t, first, cutPoint - 1))
       ELSE t

\* the result of a call that panics (slice bounds out of range)
Panic == <<"panic">>

\* extractFirstValidJSON; when the text has a fence and no newline after it,
\* start runs one past the end of the text and text[start:] panics
extractFirstValidJSON(text) ==
    LET t == TrimSpace(text)
        js == Index(t, FenceJSON)
        jrest == From(t, js + 7)
        jend == Index(jrest, Fence)
        jtext == TrimSpace(SubSeq(jrest, 1, jend - 1))
        fs == Index(t, Fence)
        nl == Index(From(t, fs), <<"\n">>)
        frest == From(t, fs + nl)
        fend == Index(frest, Fence)
        ftext == TrimSpace(SubSeq(frest, 1, fend - 1))
        firstBrace == Index(t, <<"{">>)
    IN IF js # 0 /\ jend # 0 /\ HasPrefix(jtext, <<"{">>) THEN jtext
       ELSE IF fs # 0 /\ nl = 0 THEN Panic
       ELSE IF fs # 0 /\ fend # 0 /\ HasPrefix(ftext, <<"{">>) THEN ftext
       ELSE IF firstBrace # 0 THEN From(t, firstBrace)
       ELSE t

\* encoding/json as json.Unmarshal uses it on the response text: a recursive
\* descent over RFC 8259 texts made of objects, arrays, strings and the
\* number 1. Each operator returns the position of the last character of the
\* construct that starts at i, or 0 when there is none
RECURSIVE SkipSpace(_, _)
SkipSpace(t, i) ==
    IF i <= Len(t) /\ IsSpace(t[i]) THEN SkipSpace(t, i + 1) ELSE i

RECURSIVE StringEnd(_, _)
StringEnd(t, i) ==
    IF i > Len(t) \/ t[i] = "\n" THEN 0
    ELSE IF t[i] = "\"" THEN i
    ELSE IF t[i] = "\\"
    THEN IF i + 1 <= Len(t) /\ t[i + 1] \in {"\"", "\\"}
         THEN StringEnd(t, i + 2) ELSE 0
    ELSE StringEnd(t, i + 1)

RECURSIVE ValueEnd(_, _)
RECURSIVE MembersEnd(_, _)
RECURSIVE ElementsEnd(_, _)

\* the members of an object from the key at i up to the closing brace
MembersEnd(t, i) ==
    IF i > Len(t) \/ t[i] # "\"" THEN 0
    ELSE LET k == StringEnd(t, i + 1)
             c == SkipSpace(t, k + 1)
             v == IF k # 0 /\ c <= Len(t) /\ t[c] = ":"
                  THEN ValueEnd(t, SkipSpace(t, c + 1)) ELSE 0
             n == SkipSpace(t, v + 1)
         IN IF v = 0 \/ n > Len(t) THEN 0
            ELSE IF t[n] = "}" THEN n
            ELSE IF t[n] = "," THEN MembersEnd(t, SkipSpace(t, n + 1))
            ELSE 0

\* the elements of an array from the value at i up to the closing bracket
ElementsEnd(t, i) ==
    LET v == ValueEnd(t, i)
        n == SkipSpace(t, v + 1)
    IN IF v = 0 \/ n > Len(t) THEN 0
       ELSE IF t[n] = "]" THEN n
       ELSE IF t[n] = "," THEN ElementsEnd(t, SkipSpace(t, n + 1))
       ELSE 0

ValueEnd(t, i) ==
    IF i > Len(t) THEN 0
    ELSE IF t[i] = "\"" THEN StringEnd(t, i + 1)
    ELSE IF t[i] = "1" THEN i
    ELSE IF t[i] = "{"
    THEN LET j == SkipSpace(t, i + 1) IN
         IF j <= Len(t) /\ t[j] = "}" THEN j ELSE MembersEnd(t, j)
    ELSE IF t[i] = "["
    THEN LET j == SkipSpace(t, i + 1) IN
         IF j <= Len(t) /\ t[j] = "]" THEN j ELSE ElementsEnd(t, j)
    ELSE 0

\* the members of the object whose first key starts at i, as a sequence of
\* [Key, Value] texts (the object is known to be valid)
RECURSIVE Members(_, _)
Members(t, i) ==
    IF t[i] # "\"" THEN <<>>
    ELSE LET k == StringEnd(t, i + 1)
             c == SkipSpace(t, k + 1)
             s == SkipSpace(t, c + 1)
             v == ValueEnd(t, s)
             n == SkipSpace(t, v + 1)
             m == [Key |-> SubSeq(t, i + 1, k - 1), Value |-> SubSeq(t, s, v)]
         IN IF t[n] = "," THEN <<m>> \o Members(t, SkipSpace(t, n + 1))
            ELSE <<m>>

\* json.Unmarshal(text, &geminiResp): err == nil exactly when the text is one
\* JSON object; Fields are its members (the field types of GeminiResponse
\* are not modelled)
Unmarshal(text) ==
    LET i == SkipSpace(text, 1)
        e == IF i <= Len(text) /\ text[i] = "{" THEN ValueEnd(text, i) ELSE 0
    IN IF e # 0 /\ SkipSpace(text, e + 1) > Len(text)
       THEN [ok |-> TRUE, Fields |-> Members(text, SkipSpace(text, i + 1))]
       ELSE [ok |-> FALSE, Fields |-> <<>>]

\* ProcessWithUniversalPrompt from json.Unmarshal to the success label: the
\* text that was decoded, or a failure after all repair attempts
ParseResponse(responseText) ==
    LET stage1 == removeDuplicateJSON(responseText)
        stage2 == attemptJSONRepair(stage1)
        stage3 == extractFirstValidJSON(responseText)
        Parsed(t) == [ok |-> TRUE, Text |-> t, Fields |-> Unmarshal(t).Fields]
    IN IF Unmarshal(responseText).ok THEN Parsed(responseText)
       ELSE IF stage1 # responseText /\ Unmarshal(stage1).ok THEN Parsed(stage1)
       ELSE IF stage2 # responseText /\ Unmarshal(stage2).ok THEN Parsed(stage2)
       ELSE IF stage3 # <<>> /\ stage3 # responseText /\ Unmarshal(stage3).ok
       THEN Parsed(stage3)
       ELSE [ok |-> FALSE, Text |-> IF stage3 = Panic THEN Panic ELSE responseText,
             Fields |-> <<>>]

\* building blocks of the JSON texts under test
Quoted(body) == <<"\"">> \o body \o <<"\"">>
Member(key, value) == Quoted(<<key>>) \o <<":">> \o value
Object(members) == <<"{">> \o members \o <<"}">>

\* string contents: plain, with braces, with a bracket, with a comma, with
\* an escaped quote, with an escaped backslash
StringBodies ==
    {<<"a">>, <<"{">>, <<"}", "{">>, <<"[", ",">>, <<"\\", "\"", "}">>,
     <<"\\", "\\">>}

JSONValues ==
    {Quoted(b) : b \in StringBodies}
    \cup {Object(<<>>)} \cup {Object(Member("a", Quoted(b))) : b \in StringBodies}
    \cup {<<"[", "]">>} \cup {<<"[">> \o Quoted(b) \o <<"]">> : b \in StringBodies}

SecondValues == {Quoted(<<"a">>), Object(Member("a", <<"1">>)), <<"[", "1", "]">>}

JSONObjects ==
    {Object(<<>>)}
    \cup {Object(Member("a", v)) : v \in JSONValues}
    \cup {Object(Member("a", v) \o <<",">> \o Member("b", w)) :
            v \in JSONValues, w \in SecondValues}

\* objects whose last member is a string, and the same with the final
\* closing quote and closing brace cut off
MemberPrefixes ==
    {<<>>}
    \cup {Member("a", v) \o <<",">> : v \in JSONValues}
    \cup {Member("a", v) \o <<",">> \o Member("b", w) \o <<",">> :
            v \in JSONValues, w \in SecondValues}

NoParse == [ok |-> FALSE, Text |-> <<>>, Fields |-> <<>>]

NoJSONCall ==
    [fn |-> "none", kind |-> "any", a |-> <<>>, b |-> <<>>, text |-> <<>>,
     out |-> <<>>, parsed |-> NoParse]

RECURSIVE TextsOfLen(_)
TextsOfLen(n) ==
    IF n = 0 THEN {<<>>}
    ELSE {Append(t, c) : t \in TextsOfLen(n - 1), c \in TextChars}

\* the texts under test: object A followed by object B; a truncated object
\* (a is the object before truncation); every text of at most MaxTextLen
\* characters
JSONCalls ==
    {[NoJSONCall EXCEPT !.kind = "concat", !.a = a, !.b = b, !.text = a \o b] :
        a \in JSONObjects, b \in JSONObjects}
    \cup {[NoJSONCall EXCEPT
              !.kind = "truncated",
              !.a = Object(p \o Member("c", Quoted(body))),
              !.text = <<"{">> \o p \o Member("c", <<"\"">> \o body)] :
            p \in MemberPrefixes, body \in StringBodies}
    \cup {[NoJSONCall EXCEPT !.text = t] :
            t \in UNION {TextsOfLen(n) : n \in 0..MaxTextLen}}

ExtractJSON ==
    /\ jsonCall.fn = "none"
    /\ jsonCall' = [jsonCall EXCEPT !.fn = "extractJSONFromText",
                                    !.out = extractJSONFromText(jsonCall.text)]
    /\ UNCHANGED <<svcVars, cycleVars, chatVars, fanVars, prompt, extractor, client>>

RepairJSON ==
    /\ jsonCall.fn = "none"
    /\ jsonCall' = [jsonCall EXCEPT !.fn = "attemptJSONRepair",
                                    !.out = attemptJSONRepair(jsonCall.text)]
    /\ UNCHANGED <<svcVars, cycleVars, chatVars, fanVars, prompt, extractor, client>>

DecodeResponse ==
    /\ jsonCall.fn = "none"
    /\ jsonCall' = [jsonCall EXCEPT !.fn = "ParseResponse",
                                    !.parsed = ParseResponse(jsonCall.text)]
    /\ UNCHANGED <<svcVars, cycleVars, chatVars, fanVars, prompt, extractor, client>>

NextJSON == ExtractJSON \/ RepairJSON \/ DecodeResponse

-----------------------------------------------------------------------------
(* Context sent to the LLM: src/unnamed/part_004, gemini.go                *)

ContextDepths == {"minimal", "medium", "full"}

\* the loop shared by the three builders: the last n entries of the history
RecentMessages(history, n) ==
    LET startIdx == IF Len(history) - n < 0 THEN 0 ELSE Len(history) - n
    IN SubSeq(history, startIdx + 1, Len(history))

\* UniversalPromptManager.BuildMinimalContext: "Last 1-2 messages only"
BuildMinimalContext(cs) ==
    [Header |-> "MINIMAL CONTEXT", CycleID |-> cs.CycleID,
     Iteration |-> cs.Iteration, Messages |-> RecentMessages(cs.CycleHistory, 2)]

\* UniversalPromptManager.BuildCompactStateContext
BuildCompactStateContext(cs, maxRecentMessages) ==
    [Header |-> "STATE CONTEXT", CycleID |-> cs.CycleID,
     Iteration |-> cs.Iteration,
     Messages |-> RecentMessages(cs.CycleHistory, maxRecentMessages)]

\* UniversalPromptManager.BuildStateContext: maxRecentMessages := MaxIterations
BuildStateContext(cs) ==
    [Header |-> "CURRENT STATE", CycleID |-> cs.CycleID,
     Iteration |-> cs.Iteration,
     Messages |-> RecentMessages(cs.CycleHistory, MaxIterations)]

BuildFullContext(cs) == BuildStateContext(cs)

\* ProcessWithUniversalPrompt: the switch on the context depth
StateContext(contextDepth, cs) ==
    IF contextDepth = "minimal" THEN BuildMinimalContext(cs)
    ELSE IF contextDepth = "medium" THEN BuildCompactStateContext(cs, 3)
    ELSE IF contextDepth = "full" THEN BuildFullContext(cs)
    ELSE BuildCompactStateContext(cs, 3)

NoContext == [Header |-> "", CycleID |-> 0, Iteration |-> 0, Messages |-> <<>>]

\* cs is the cycle state of the turn's working copy of the session, saved the
\* cycle state of the session as the last successful SaveSession stored it
NoPrompt ==
    [pc |-> "user", cs |-> InitializeCycleState, depth |-> "",
     context |-> NoContext, saved |-> InitializeCycleState]

\* ProcessChat adds the user message to the cycle history
PromptUserMessage ==
    /\ prompt.pc = "user"
    /\ \E content \in Contents :
        prompt' = [prompt EXCEPT !.pc = "ai",
                                 !.cs = AddToCycleHistory(@, "user", content)]
    /\ UNCHANGED <<svcVars, cycleVars, chatVars, fanVars, jsonCall, extractor, client>>

\* ProcessWithUniversalPrompt builds the state context at the depth chosen by
\* DecideContextDepth
PromptBuildContext ==
    /\ prompt.pc = "ai"
    /\ \E depth \in ContextDepths :
        prompt' = [prompt EXCEPT !.pc = "assistant", !.depth = depth,
                                 !.context = StateContext(depth, prompt.cs)]
    /\ UNCHANGED <<svcVars, cycleVars, chatVars, fanVars, jsonCall, extractor, client>>

\* ProcessChat, all attempts of the AI call failed: the fallback response is
\* returned without SaveSession; the next turn loads the stored session
PromptFallback ==
    /\ prompt.pc = "ai"
    /\ prompt' = [NoPrompt EXCEPT !.cs = prompt.saved, !.saved = prompt.saved]
    /\ UNCHANGED <<svcVars, cycleVars, chatVars, fanVars, jsonCall, extractor, client>>

\* ProcessChat adds the assistant message, advances the cycle and saves the
\* session; when the save fails the stored session stays as it was
PromptAssistantMessage ==
    /\ prompt.pc = "assistant"
    /\ IncrementIteration(prompt.cs).ok \/ prompt.cs.CycleID < MaxCycleID
    /\ \E saveFails \in BOOLEAN :
        LET cs1 == AddToCycleHistory(prompt.cs, "assistant", "o")
            r == IncrementIteration(cs1)
            cs2 == IF r.ok THEN r.state ELSE StartNewCycle(r.state, "a", <<>>)
            stored == IF saveFails THEN prompt.saved ELSE cs2
        IN prompt' = [NoPrompt EXCEPT !.cs = stored, !.saved = stored]
    /\ UNCHANGED <<svcVars, cycleVars, chatVars, fanVars, jsonCall, extractor, client>>

NextContext ==
    \/ PromptUserMessage
    \/ PromptBuildContext
    \/ PromptFallback
    \/ PromptAssistantMessage

-----------------------------------------------------------------------------
(* Context extractor: src/backend/internal/services/context_extractor.go   *)

\* models.ConversationPreferences; the Go slices are modelled as sets
NoPreferences == [PriceRange |-> "nil", Brands |-> {}, Features |-> {}]

PreferenceValues ==
    [PriceRange : {"nil", "r1"}, Brands : SUBSET {"x"},
     Features : SUBSET {"f"}]

Summaries == {"", "s1"}

ExclusionCategories == {"brand"}

\* what the preference sub-call can come back with: a transport error, a
\* response without candidates, text that is not JSON, or any preferences
\* object the LLM chooses to write
PreferenceReplies ==
    {[kind |-> k, value |-> NoPreferences] : k \in {"error", "empty", "invalid"}}
    \cup {[kind |-> "json", value |-> v] : v \in PreferenceValues}

SummaryReplies ==
    {[kind |-> k, value |-> ""] : k \in {"error", "empty"}}
    \cup {[kind |-> "text", value |-> v] : v \in Summaries}

\* ContextExtractorService.ExtractUserPreferences: on success the decoded
\* LLM output is returned as it is
ExtractUserPreferences(hasMessages, currentPreferences, reply) ==
    IF ~hasMessages THEN [value |-> currentPreferences, err |-> FALSE]
    ELSE IF reply.kind # "json" THEN [value |-> currentPreferences, err |-> TRUE]
    ELSE [value |-> reply.value, err |-> FALSE]

\* ContextExtractorService.GenerateConversationSummary
GenerateConversationSummary(hasMessages, previousSummary, reply) ==
    IF ~hasMessages THEN [value |-> previousSummary, err |-> FALSE]
    ELSE IF reply.kind # "text" THEN [value |-> previousSummary, err |-> TRUE]
    ELSE IF reply.value = "" THEN [value |-> previousSummary, err |-> FALSE]
    ELSE [value |-> reply.value, err |-> FALSE]

\* ContextExtractorService.ExtractExclusions: matched are the categories
\* whose keywords occur in the user messages
ExtractExclusions(hasMessages, matched) == IF hasMessages THEN matched ELSE {}

NoConversationContext ==
    [Set |-> FALSE, Summary |-> "", Preferences |-> NoPreferences,
     Exclusions |-> {}]

\* ContextExtractorService.UpdateConversationContext: err of each sub-call
\* is tested and then overwritten; the function ends with "return nil"
UpdateConversationContext(context, hasMessages, prefReply, sumReply, matched) ==
    LET ctx == IF context.Set THEN context
               ELSE [NoConversationContext EXCEPT !.Set = TRUE]
        preferences == ExtractUserPreferences(hasMessages, ctx.Preferences, prefReply)
        summary == GenerateConversationSummary(hasMessages, ctx.Summary, sumReply)
        exclusions == ExtractExclusions(hasMessages, matched)
    IN [context |-> [ctx EXCEPT
                        !.Preferences = IF ~preferences.err
                                        THEN preferences.value ELSE @,
                        !.Summary = IF ~summary.err THEN summary.value ELSE @,
                        !.Exclusions = @ \cup exclusions],
        err |-> FALSE]

NoUpdate ==
    [made |-> FALSE, pre |-> NoConversationContext, prefFailed |-> FALSE,
     sumFailed |-> FALSE, userChanged |-> FALSE, matched |-> {}, err |-> FALSE]

NoExtractor == [context |-> NoConversationContext, update |-> NoUpdate]

\* ProcessChat: ShouldUpdateContext answered yes, UpdateConversationContext is
\* called on the cycle history (never empty at this point); userChanged says
\* whether the new messages explicitly change an earlier preference
UpdateContext ==
    \E prefReply \in PreferenceReplies, sumReply \in SummaryReplies,
       matched \in SUBSET ExclusionCategories, userChanged \in BOOLEAN :
        LET r == UpdateConversationContext(extractor.context, TRUE,
                                           prefReply, sumReply, matched)
        IN /\ extractor' =
                [context |-> r.context,
                 update |-> [made |-> TRUE, pre |-> extractor.context,
                             prefFailed |-> prefReply.kind # "json",
                             sumFailed |-> sumReply.kind # "text",
                             userChanged |-> userChanged,
                             matched |-> matched, err |-> r.err]]
           /\ UNCHANGED <<svcVars, cycleVars, chatVars, fanVars, jsonCall, prompt, client>>

NextExtractor == UpdateContext

-----------------------------------------------------------------------------
(* Browser client: src/frontend/src/features/chat/hooks/use-chat.ts        *)

\* bound: the closures of the connection that are explored
MaxClosures == 4

NormalClosure == 1000

\* normal closure, going away, abnormal closure, internal error
CloseCodes == {NormalClosure, 1001, 1006, 1011}

\* accessToken is "none" (anonymous), "valid" or "expired" (isTokenExpired)
NoClient ==
    [pc |-> "open", accessToken |-> "none", refreshToken |-> FALSE,
     code |-> 0, closures |-> 0]

\* the clients explored: anonymous, or logged in with both tokens
Clients ==
    {NoClient, [NoClient EXCEPT !.accessToken = "valid", !.refreshToken = TRUE]}

\* useChat's shouldReconnect callback: its return value, and whether it
\* started authAPI.refreshAccessToken
shouldReconnect(closeCode, accessToken, refreshToken) ==
    IF accessToken # "none" /\ refreshToken /\ accessToken = "expired"
    THEN [reconnect |-> FALSE, refresh |-> TRUE]
    ELSE IF closeCode = NormalClosure
    THEN [reconnect |-> FALSE, refresh |-> FALSE]
    ELSE [reconnect |-> TRUE, refresh |-> FALSE]

\* the access token reaches its expiry time
ClientTokenExpires ==
    /\ client.accessToken = "valid"
    /\ client' = [client EXCEPT !.accessToken = "expired"]
    /\ UNCHANGED <<svcVars, cycleVars, chatVars, fanVars, jsonCall, prompt, extractor>>

\* the socket closes with one of the close codes and useWebSocket asks
\* shouldReconnect
ClientClose ==
    /\ client.pc = "open"
    /\ client.closures < MaxClosures
    /\ \E closeCode \in CloseCodes :
        LET r == shouldReconnect(closeCode, client.accessToken,
                                 client.refreshToken)
        IN client' = [client EXCEPT
                         !.pc = IF r.refresh THEN "refreshing"
                                ELSE IF r.reconnect THEN "reconnecting"
                                ELSE "closed",
                         !.code = closeCode, !.closures = @ + 1]
    /\ UNCHANGED <<svcVars, cycleVars, chatVars, fanVars, jsonCall, prompt, extractor>>

\* useWebSocket reconnects after reconnectInterval
ClientReconnect ==
    /\ client.pc = "reconnecting"
    /\ client' = [client EXCEPT !.pc = "open"]
    /\ UNCHANGED <<svcVars, cycleVars, chatVars, fanVars, jsonCall, prompt, extractor>>

\* refreshAccessToken settles: a new access token, or clearAuth on failure;
\* either way accessToken changes, so socketUrl changes and useWebSocket
\* opens a connection to the new URL
ClientRefreshDone ==
    /\ client.pc = "refreshing"
    /\ \E ok \in BOOLEAN :
        client' = [client EXCEPT
                      !.pc = "open",
                      !.accessToken = IF ok THEN "valid" ELSE "none",
                      !.refreshToken = ok]
    /\ UNCHANGED <<svcVars, cycleVars, chatVars, fanVars, jsonCall, prompt, extractor>>

NextClient ==
    \/ ClientTokenExpires
    \/ ClientClose
    \/ ClientReconnect
    \/ ClientRefreshDone

-----------------------------------------------------------------------------
(* Cache-first search: src/backend/internal/services/serp.go               *)

\* bound: the shopping results one SERP answer carries
MaxItems == 2

\* the cache keys explored ("search:<country>:<type>:<query>" and the price
\* bounds)
CacheKeys == {"k1", "k2"}

\* a []models.ProductCard: nil, or a slice of len cards
NilCards == [nil |-> TRUE, len |-> 0]

CardsOf(n) == [nil |-> FALSE, len |-> n]

\* CacheService.GetSearchResults: the entry under the key, nil when there is
\* none; getErr is the outcome of the cache read
GetSearchResults(cache, key, getErr) ==
    IF getErr THEN [err |-> TRUE, cached |-> NilCards]
    ELSE [err |-> FALSE, cached |-> cache[key]]

\* CacheService.SetSearchResults: setFails is the outcome of the cache write,
\* which SearchWithCache ignores
SetSearchResults(cache, key, cards, setFails) ==
    IF setFails THEN cache ELSE [cache EXCEPT ![key] = cards]

\* a plausible slip: the result is stored before the error is looked at
CachedSearch_StoresFailure(cache, key, getErr, apiFails, items, setFails) ==
    LET got == GetSearchResults(cache, key, getErr) IN
    IF ~got.err /\ ~got.cached.nil
    THEN [cards |-> got.cached, keyIndex |-> -1, err |-> FALSE,
          providerCalls |-> 0, cache |-> cache]
    ELSE LET r == SearchProducts(apiFails, items)
             stored == SetSearchResults(cache, key, CardsOf(r.products), setFails)
         IN IF r.err
            THEN [cards |-> NilCards, keyIndex |-> 0, err |-> TRUE,
                  providerCalls |-> 1, cache |-> stored]
            ELSE [cards |-> CardsOf(r.products), keyIndex |-> 0, err |-> FALSE,
                  providerCalls |-> 1, cache |-> stored]

\* SerpService.SearchWithCache on the cache as a value: the cards, the key
\* index (-1 on a hit, the index of the SERP key used otherwise), the error,
\* the number of SearchProducts calls made and the cache afterwards
CachedSearch(cache, key, getErr, apiFails, items, setFails) ==
    LET got == GetSearchResults(cache, key, getErr) IN
    IF ~got.err /\ ~got.cached.nil
    THEN [cards |-> got.cached, keyIndex |-> -1, err |-> FALSE,
          providerCalls |-> 0, cache |-> cache]
    ELSE LET r == SearchProducts(apiFails, items) IN
         IF r.err
         THEN [cards |-> NilCards, keyIndex |-> 0, err |-> TRUE,
               providerCalls |-> 1, cache |-> cache]
         ELSE [cards |-> CardsOf(r.products), keyIndex |-> 0, err |-> FALSE,
               providerCalls |-> 1,
               cache |-> SetSearchResults(cache, key, CardsOf(r.products),
                                          setFails)]

NoSearchCall ==
    [made |-> FALSE, key |-> "", getErr |-> FALSE, setFails |-> FALSE,
     pre |-> [k \in CacheKeys |-> NilCards],
     cards |-> NilCards, keyIndex |-> 0, err |-> FALSE, providerCalls |-> 0,
     post |-> [k \in CacheKeys |-> NilCards], succeeded |-> {}]

SerpIdle ==
    /\ serpCache = [k \in CacheKeys |-> NilCards]
    /\ searchCall = NoSearchCall

\* one call of SearchWithCache; succeeded collects the results of the
\* successful SearchProducts calls made so far
SearchWithCacheCall ==
    \E key \in CacheKeys, getErr \in BOOLEAN, apiFails \in BOOLEAN,
       items \in 0..MaxItems, setFails \in BOOLEAN :
        LET r == CachedSearch(serpCache, key, getErr, apiFails, items, setFails)
        IN /\ serpCache' = r.cache
           /\ searchCall' =
                [made |-> TRUE, key |-> key, getErr |-> getErr,
                 setFails |-> setFails, pre |-> serpCache,
                 cards |-> r.cards, keyIndex |-> r.keyIndex, err |-> r.err,
                 providerCalls |-> r.providerCalls, post |-> r.cache,
                 succeeded |->
                     IF r.providerCalls > 0 /\ ~r.err
                     THEN searchCall.succeeded \cup {<<key, r.cards>>}
                     ELSE searchCall.succeeded]
           /\ UNCHANGED <<cycleVars, chatVars, fanVars, libVars, localeCall,
                          hubVars, keyVars>>

\* an entry outlives its TTL (Config.CacheSerpTTL)
CacheExpire ==
    /\ \E key \in CacheKeys :
        /\ ~serpCache[key].nil
        /\ serpCache' = [serpCache EXCEPT ![key] = NilCards]
    /\ UNCHANGED <<searchCall, cycleVars, chatVars, fanVars, libVars,
                   localeCall, hubVars, keyVars>>

NextSerpCache == SearchWithCacheCall \/ CacheExpire

-----------------------------------------------------------------------------
(* Session locale: src/unnamed/part_001, ProcessChat and getOrCreateSession *)

\* Config.DefaultCountry, DefaultLanguage, DefaultCurrency
DefaultCountry == "c0"
DefaultLanguage == "l0"
DefaultCurrency == "m0"

\* the locale values explored: the configured default and one other
Countries == {DefaultCountry, "c1"}
Languages == {DefaultLanguage, "l1"}
Currencies == {DefaultCurrency, "m1"}

\* ProcessChat, "Set defaults", made before the session is loaded
SetDefaults(req) ==
    [Country |-> IF req.Country = "" THEN DefaultCountry ELSE req.Country,
     Language |-> IF req.Language = "" THEN DefaultLanguage ELSE req.Language,
     Currency |-> IF req.Currency = "" THEN DefaultCurrency ELSE req.Currency]

\* getOrCreateSession, "Session exists": each locale field of the session is
\* overwritten by a non-empty, different value of the request
PreserveLocale(session, req) ==
    [LanguageCode |-> IF req.Language # "" /\ req.Language # session.LanguageCode
                      THEN req.Language ELSE session.LanguageCode,
     Currency |-> IF req.Currency # "" /\ req.Currency # session.Currency
                  THEN req.Currency ELSE session.Currency,
     CountryCode |-> IF req.Country # "" /\ req.Country # session.CountryCode
                     THEN req.Country ELSE session.CountryCode]

\* the locale of an existing session after ProcessChat has loaded it for the
\* request
SessionLocale(session, req) == PreserveLocale(session, SetDefaults(req))

NoLocale == [LanguageCode |-> "", Currency |-> "", CountryCode |-> ""]

\* the users that can own a session or send a request
SessionUsers == {"u1", "u2"}

NoLocaleCall ==
    [made |-> FALSE, session |-> NoLocale, owner |-> NoUser,
     req |-> [Country |-> "", Language |-> "", Currency |-> ""],
     user |-> NoUser, result |-> NoLocale, resultOwner |-> NoUser]

\* an existing session with its stored owner, and a chat request for it with
\* the user of its access token
LocaleCalls ==
    {[NoLocaleCall EXCEPT !.session = session, !.req = req,
                          !.owner = owner, !.user = user] :
        session \in [LanguageCode : Languages, Currency : Currencies,
                     CountryCode : Countries],
        req \in [Country : Countries \cup {""}, Language : Languages \cup {""},
                 Currency : Currencies \cup {""}],
        owner \in SessionUsers \cup {NoUser},
        user \in SessionUsers \cup {NoUser}}

\* ProcessChat loads the session for the request: the existing-session branch
\* of getOrCreateSession links the user, then settles the locale
LoadSessionLocale ==
    /\ ~localeCall.made
    /\ localeCall' = [localeCall EXCEPT
                         !.made = TRUE,
                         !.result = SessionLocale(localeCall.session,
                                                  localeCall.req),
                         !.resultOwner =
                             LinkUser([UserID |-> localeCall.owner],
                                      [UserID |-> localeCall.user]).UserID]
    /\ UNCHANGED <<cycleVars, chatVars, fanVars, libVars, serpVars, hubVars,
                   keyVars>>

NextLocale == LoadSessionLocale

-----------------------------------------------------------------------------
(* LLM key rotation: src/backend/internal/services/gemini.go               *)

\* bound: the API keys of the rotator, numbered from 0
NumKeys == 3

\* bound: the attempts of one executeWithRetryAndModel call (its maxRetries)
MaxAttempts == 2

KeyIndexes == 0..(NumKeys - 1)

\* the requests in flight, each in its own goroutine
AIRequests == {"r1", "r2"}

\* KeyRotator.MarkKeyAsExhausted
MarkKeyAsExhausted(exhausted, index) == exhausted \cup {index}

\* KeyRotator.GetNextKey: the keys it can hand out; none is an error
AvailableKeys(exhausted) == KeyIndexes \ exhausted

\* GeminiService.rotateClient, under g.mu.Lock; keyIndex is the key
\* GetNextKey returns when it returns one
rotateClient(svc, markCurrentAsExhausted, keyIndex) ==
    LET exhausted == IF markCurrentAsExhausted
                     THEN MarkKeyAsExhausted(svc.exhausted, svc.currentKeyIndex)
                     ELSE svc.exhausted
    IN IF AvailableKeys(exhausted) = {}
       THEN [svc EXCEPT !.exhausted = exhausted]
       ELSE [svc EXCEPT !.exhausted = exhausted, !.client = keyIndex,
                        !.currentKeyIndex = keyIndex]

\* NewGeminiService: the client is built with the first key. quotaErrors is
\* the set of keys a request made with them has returned a quota error for
NewGeminiService ==
    [client |-> 0, currentKeyIndex |-> 0, exhausted |-> {}, quotaErrors |-> {}]

NoAICall == [pc |-> "idle", attempt |-> 0, client |-> 0]

KeysIdle ==
    /\ geminiSvc = NewGeminiService
    /\ aiCall = [r \in AIRequests |-> NoAICall]

KeysRest == <<cycleVars, chatVars, fanVars, libVars, serpVars, localeCall, hubVars>>

\* "Get current client" of one attempt, under g.mu.RLock
GetClient(r) ==
    /\ aiCall[r].pc \in {"idle", "retry"}
    /\ aiCall' = [aiCall EXCEPT ![r].pc = "calling",
                                ![r].client = geminiSvc.client]
    /\ UNCHANGED <<geminiSvc, KeysRest>>

\* the attempt after this one, or the end of the loop
AfterAttempt(call) ==
    IF call.attempt + 1 < MaxAttempts
    THEN [call EXCEPT !.pc = "retry", !.attempt = @ + 1]
    ELSE [call EXCEPT !.pc = "done"]

\* client.Models.GenerateContent returns: a response, a quota error (quota,
\* 429, RESOURCE_EXHAUSTED), a retried error (503, timeout) or another error
GenerateContent(r) ==
    /\ aiCall[r].pc = "calling"
    /\ \E outcome \in {"ok", "quota", "retried", "other"} :
        /\ aiCall' = [aiCall EXCEPT ![r] =
                         IF outcome = "quota" THEN [@ EXCEPT !.pc = "rotating"]
                         ELSE IF outcome = "retried" THEN AfterAttempt(@)
                         ELSE [@ EXCEPT !.pc = "done"]]
        /\ geminiSvc' = IF outcome = "quota"
                        THEN [geminiSvc EXCEPT
                                 !.quotaErrors = @ \cup {aiCall[r].client}]
                        ELSE geminiSvc
    /\ UNCHANGED KeysRest

\* the quota branch: rotateClient(true), whose error is only printed, then
\* continue
RotateClient(r) ==
    /\ aiCall[r].pc = "rotating"
    /\ \E keyIndex \in KeyIndexes :
        /\ AvailableKeys(MarkKeyAsExhausted(geminiSvc.exhausted,
                                       geminiSvc.currentKeyIndex)) # {}
              => keyIndex \in AvailableKeys(MarkKeyAsExhausted(
                                  geminiSvc.exhausted, geminiSvc.currentKeyIndex))
        /\ geminiSvc' = rotateClient(geminiSvc, TRUE, keyIndex)
    /\ aiCall' = [aiCall EXCEPT ![r] = AfterAttempt(@)]
    /\ UNCHANGED KeysRest

NextKeyRotation ==
    \/ \E r \in AIRequests : GetClient(r)
    \/ \E r \in AIRequests : GenerateContent(r)
    \/ \E r \in AIRequests : RotateClient(r)

-----------------------------------------------------------------------------
(* Goroutines of one WSHandler: src/backend/internal/handlers/websocket.go *)

\* the process, its connections (each read by its own HandleWebSocket
\* goroutine, named after the connection) and the goroutine that runs the
\* pub/sub callback
HubProc == "p1"
HubConns == {"c1", "c2"}
Subscriber == "sub"
HubGoroutines == HubConns \cup {Subscriber}
HubUsers == {"u1"}

NoLock == "none"

\* pc: "new" (before addClient), "idle" (in ReadJSON, or between
\* publications), "mutating" (inside updateClientUser or removeClient, holding
\* mu.Lock), "iterating" (inside the range loop over a user's connection
\* set), "writing" (inside Conn.WriteJSON on cid), "closed". op is the
\* function the goroutine is in; clientIDs is the map the range loop was
\* handed, orphaned when its key has been deleted from userConns since;
\* present are the ids in it when the loop started, visited the ids the loop
\* has produced, closedAtStart the connections removed before the broadcast
\* started
NoGoroutine ==
    [pc |-> "idle", op |-> "", user |-> NoUser, exclude |-> "",
     orphaned |-> FALSE, present |-> {}, visited |-> {}, cid |-> "",
     closedAtStart |-> {}]

HubIdle ==
    /\ hubMu = NoLock
    /\ goroutine = [g \in HubGoroutines |->
                       IF g = Subscriber THEN NoGoroutine
                       ELSE [NoGoroutine EXCEPT !.pc = "new"]]
    /\ connWriters = [c \in HubConns |-> {}]

HubRest ==
    <<conn, inbox, bus, chats, cycleVars, chatVars, libVars, serpVars,
      localeCall, keyVars>>

\* the registries of the process
Hub == wsHandler[HubProc]

\* the ids the range loop of g can still produce: the ones in the map it was
\* handed (nothing is left in an orphaned map)
Live(g) ==
    IF goroutine[g].orphaned THEN {} ELSE Hub.userConns[goroutine[g].user]

\* the connection sets an updateClientUser or removeClient call writes to:
\* delete(connSet, id) on the old user's set and
\* h.userConns[userID][clientID] = true on the new user's existing set
WrittenSets(h, op, id, userID) ==
    IF h.clients[id] = Absent THEN {}
    ELSE {u \in HubUsers : u = h.clients[id] /\ u \in h.userKeys}
         \cup (IF op = "updateClientUser"
               THEN {u \in HubUsers : u = userID /\ u \in h.userKeys}
               ELSE {})

\* HandleWebSocket up to its read loop: addClient under mu.Lock
HubConnect(c) ==
    /\ goroutine[c].pc = "new"
    /\ hubMu = NoLock
    /\ wsHandler' = [wsHandler EXCEPT ![HubProc] = addClient(@, c)]
    /\ goroutine' = [goroutine EXCEPT ![c].pc = "idle"]
    /\ UNCHANGED <<hubMu, connWriters, HubRest>>

\* the handler of c enters updateClientUser (a message carries a valid token
\* of a user other than the connection's) or removeClient (ReadJSON failed:
\* close, read error or missed deadline) and takes mu.Lock
MutateBegin(c) ==
    /\ goroutine[c].pc = "idle"
    /\ hubMu = NoLock
    /\ \E op \in {"updateClientUser", "removeClient"} :
       \E userID \in (IF op = "updateClientUser"
                       THEN HubUsers \ {Hub.clients[c]} ELSE {NoUser}) :
        goroutine' = [goroutine EXCEPT ![c].pc = "mutating", ![c].op = op,
                                       ![c].user = userID]
    /\ hubMu' = c
    /\ UNCHANGED <<wsHandler, connWriters, HubRest>>

\* the call makes its writes and returns, releasing mu; a range loop whose
\* map has just been deleted from userConns is left with the orphaned map
MutateEnd(c) ==
    /\ goroutine[c].pc = "mutating"
    /\ LET h == IF goroutine[c].op = "removeClient"
                THEN removeClient(Hub, c)
                ELSE updateClientUser(Hub, c, goroutine[c].user)
       IN /\ wsHandler' = [wsHandler EXCEPT ![HubProc] = h]
          /\ goroutine' =
               [g \in HubGoroutines |->
                   IF g = c
                   THEN [NoGoroutine EXCEPT
                            !.pc = IF goroutine[c].op = "removeClient"
                                   THEN "closed" ELSE "idle"]
                   ELSE IF /\ goroutine[g].pc \in {"iterating", "writing"}
                           /\ goroutine[g].op = "broadcast"
                           /\ goroutine[g].user \in Hub.userKeys \ h.userKeys
                   THEN [goroutine[g] EXCEPT !.orphaned = TRUE]
                   ELSE goroutine[g]]
    /\ hubMu' = NoLock
    /\ UNCHANGED <<connWriters, HubRest>>

\* broadcastToUser called by the handler of an authenticated connection, or
\* handleBroadcastMessage called for a publication: under mu.RLock the
\* user's connection set is looked up, and the range loop over it starts
\* after mu.RUnlock
BroadcastBegin(g) ==
    /\ goroutine[g].pc = "idle"
    /\ hubMu = NoLock
    /\ \E userID \in HubUsers :
        /\ g \in HubConns => Hub.clients[g] = userID
        /\ userID \in Hub.userKeys
        /\ goroutine' = [goroutine EXCEPT ![g] =
              [NoGoroutine EXCEPT
                  !.pc = "iterating", !.op = "broadcast", !.user = userID,
                  !.exclude = IF g \in HubConns THEN g ELSE "",
                  !.present = Hub.userConns[userID],
                  !.closedAtStart =
                      {c \in HubConns : goroutine[c].pc = "closed"}]]
    /\ UNCHANGED <<wsHandler, hubMu, connWriters, HubRest>>

\* the loop produces the next id; the excluded id is skipped, otherwise the
\* client is looked up under mu.RLock and, when it exists, WriteJSON on its
\* connection is entered
IterateNext(g) ==
    /\ goroutine[g].pc = "iterating"
    /\ hubMu = NoLock
    /\ \E cid \in Live(g) \ goroutine[g].visited :
        LET writes == cid # goroutine[g].exclude /\ Hub.clients[cid] # Absent
        IN /\ goroutine' = [goroutine EXCEPT
                               ![g].visited = @ \cup {cid},
                               ![g].pc = IF writes THEN "writing" ELSE @,
                               ![g].cid = IF writes THEN cid ELSE @]
           /\ connWriters' = IF writes
                             THEN [connWriters EXCEPT ![cid] = @ \cup {g}]
                             ELSE connWriters
    /\ UNCHANGED <<wsHandler, hubMu, HubRest>>

\* the loop ends: every id that has been in the map since the loop started
\* was produced
IterateEnd(g) ==
    /\ goroutine[g].pc = "iterating"
    /\ (goroutine[g].present \cap Live(g)) \subseteq goroutine[g].visited
    /\ goroutine' = [goroutine EXCEPT ![g] = NoGoroutine]
    /\ UNCHANGED <<wsHandler, hubMu, connWriters, HubRest>>

\* sendResponse or sendError by the handler of c (a response, a pong, an
\* error): WriteJSON on its own connection is entered
SendResponse(c) ==
    /\ goroutine[c].pc = "idle"
    /\ goroutine' = [goroutine EXCEPT ![c].pc = "writing", ![c].op = "send",
                                      ![c].cid = c]
    /\ connWriters' = [connWriters EXCEPT ![c] = @ \cup {c}]
    /\ UNCHANGED <<wsHandler, hubMu, HubRest>>

\* WriteJSON returns
WriteEnd(g) ==
    /\ goroutine[g].pc = "writing"
    /\ connWriters' = [connWriters EXCEPT ![goroutine[g].cid] = @ \ {g}]
    /\ goroutine' = [goroutine EXCEPT ![g] =
                        IF goroutine[g].op = "broadcast"
                        THEN [@ EXCEPT !.pc = "iterating", !.cid = ""]
                        ELSE NoGoroutine]
    /\ UNCHANGED <<wsHandler, hubMu, HubRest>>

NextHub ==
    \/ \E c \in HubConns : HubConnect(c)
    \/ \E c \in HubConns : MutateBegin(c)
    \/ \E c \in HubConns : MutateEnd(c)
    \/ \E g \in HubGoroutines : BroadcastBegin(g)
    \/ \E g \in HubGoroutines : IterateNext(g)
    \/ \E g \in HubGoroutines : IterateEnd(g)
    \/ \E c \in HubConns : SendResponse(c)
    \/ \E g \in HubGoroutines : WriteEnd(g)

LocaleIdle == localeCall = NoLocaleCall

\* the services outside the chat, fan-out and library layers are at rest
SvcIdle == SerpIdle /\ LocaleIdle /\ HubIdle /\ KeysIdle

\* the layers outside the three state machines are at rest
LibIdle ==
    /\ jsonCall = NoJSONCall /\ prompt = NoPrompt /\ extractor = NoExtractor
    /\ client = NoClient

-----------------------------------------------------------------------------
(* Specifications                                                          *)

Init == CycleIdle /\ ChatIdle /\ FanoutIdle /\ LibIdle /\ SvcIdle

InitCycle == CycleIdle /\ ChatIdle /\ FanoutIdle /\ LibIdle /\ SvcIdle

InitFanout == CycleIdle /\ ChatIdle /\ FanoutIdle /\ LibIdle /\ SvcIdle

Spec == Init /\ [][Next]_vars

SpecCycle == InitCycle /\ [][NextCycle]_vars

SpecFanout == InitFanout /\ [][NextFanout]_vars

\* every subscriber goroutine keeps taking publications off the topic
SpecFanoutFair ==
    /\ InitFanout /\ [][NextFanout]_vars
    /\ \A p \in Procs : WF_vars(HandleBroadcast(p))

\* the subscribers keep running and every ProcessChat call returns: its AI
\* retries, its save retries and its collaborators' deadlines are bounded
SpecChatFair ==
    /\ InitFanout /\ [][NextFanout]_vars
    /\ \A p \in Procs : WF_vars(HandleBroadcast(p))
    /\ \A c \in Conns : WF_vars(HandleChatEnd(c))

InitConcurrent == CycleIdle /\ ChatIdle /\ FanoutIdle /\ LibIdle /\ SvcIdle

InitRegistry == CycleIdle /\ ChatIdle /\ FanoutIdle /\ LibIdle /\ SvcIdle

SpecRegistry == InitRegistry /\ [][NextRegistry]_vars

SpecConcurrent == InitConcurrent /\ [][NextConcurrent]_vars

InitDeadline == CycleIdle /\ ChatIdle /\ FanoutIdle /\ LibIdle /\ SvcIdle

SpecDeadline == InitDeadline /\ [][NextDeadline]_vars

InitJSON ==
    /\ CycleIdle /\ ChatIdle /\ FanoutIdle /\ SvcIdle
    /\ prompt = NoPrompt /\ extractor = NoExtractor /\ client = NoClient
    /\ jsonCall \in JSONCalls

SpecJSON == InitJSON /\ [][NextJSON]_vars

InitContext == CycleIdle /\ ChatIdle /\ FanoutIdle /\ LibIdle /\ SvcIdle

SpecContext == InitContext /\ [][NextContext]_vars

InitExtractor == CycleIdle /\ ChatIdle /\ FanoutIdle /\ LibIdle /\ SvcIdle

SpecExtractor == InitExtractor /\ [][NextExtractor]_vars

InitClient ==
    /\ CycleIdle /\ ChatIdle /\ FanoutIdle /\ SvcIdle
    /\ jsonCall = NoJSONCall /\ prompt = NoPrompt /\ extractor = NoExtractor
    /\ client \in Clients

SpecClient == InitClient /\ [][NextClient]_vars

InitSerpCache ==
    /\ CycleIdle /\ ChatIdle /\ FanoutIdle /\ LibIdle
    /\ SerpIdle /\ LocaleIdle /\ HubIdle /\ KeysIdle

SpecSerpCache == InitSerpCache /\ [][NextSerpCache]_vars

InitLocale ==
    /\ CycleIdle /\ ChatIdle /\ FanoutIdle /\ LibIdle
    /\ SerpIdle /\ HubIdle /\ KeysIdle
    /\ localeCall \in LocaleCalls

SpecLocale == InitLocale /\ [][NextLocale]_vars

InitHub ==
    /\ CycleIdle /\ ChatIdle /\ FanoutIdle /\ LibIdle
    /\ SerpIdle /\ LocaleIdle /\ HubIdle /\ KeysIdle

SpecHub == InitHub /\ [][NextHub]_vars

InitKeys ==
    /\ CycleIdle /\ ChatIdle /\ FanoutIdle /\ LibIdle
    /\ SerpIdle /\ LocaleIdle /\ HubIdle /\ KeysIdle

SpecKeys == InitKeys /\ [][NextKeyRotation]_vars

-----------------------------------------------------------------------------
(* Claims on the chat orchestrator                                         *)

IsLimitResponse(r) ==
    /\ r.Set /\ r.Error = "" /\ r.Type = "text"
    /\ r.SearchState.Set /\ ~r.SearchState.CanContinue
    /\ r.SearchState.Message \in
          {"Search limit reached",
           "Anonymous search limit reached - authentication required"}

\* C1: quota enforcement. A turn that loaded a session with persisted
\* search_count = max_searches - 1, ran without new_search, made a successful
\* search and saved, saved search_count = max_searches; and every turn that
\* loads a session whose persisted search_count is max_searches, without
\* new_search, ends at once with a limit-reached response (can_continue =
\* false) and has invoked neither the AI nor the search collaborator.
C1_QuotaEnforcement ==
    \A w \in Workers :
        LET t == turn[w] IN
        /\ (/\ t.saved /\ t.loaded.Exists /\ ~t.req.NewSearch
            /\ t.loaded.SearchCount = MaxSearches - 1
            /\ t.response.Products > 0)
              => /\ t.session.SearchCount = MaxSearches
                 /\ store[t.session.ID] \in {t.session, NoSession}
        /\ (/\ t.pc # "idle" /\ t.loaded.Exists /\ ~t.req.NewSearch
            /\ t.loaded.SearchCount = MaxSearches)
              => /\ t.pc = "done"
                 /\ IsLimitResponse(t.response)
                 /\ \A i \in 1..Len(t.trace) : t.trace[i] \notin {"ai", "search"}

\* a turn was refused with the session limit response on a session whose
\* persisted count had reached the maximum
C1_Witness ==
    \E w \in Workers :
        /\ turn[w].pc = "done"
        /\ turn[w].loaded.Exists
        /\ turn[w].loaded.SearchCount = MaxSearches
        /\ turn[w].response.SearchState.Message = "Search limit reached"

\* C2: in every reachable session state, persisted or held by a turn in
\* flight, search_count never exceeds the configured maximum.
C2_SearchCountBounded ==
    /\ \A s \in AllSessionIDs : store[s].SearchCount <= MaxSearches
    /\ \A w \in Workers : turn[w].session.SearchCount <= MaxSearches

\* a persisted session sits at the maximum
C2_Witness ==
    \E s \in AllSessionIDs : store[s].Exists /\ store[s].SearchCount = MaxSearches

Rank(event) ==
    CASE event = "user_msg" -> 1
      [] event = "ai" -> 2
      [] event = "search" -> 3
      [] event = "assistant_msg" -> 4
      [] event = "save" -> 5

Occurs(trace, event) == \E i \in 1..Len(trace) : trace[i] = event

\* C7: within one turn the events happen in the order user message stored,
\* AI invoked, assistant message store attempted, session save: the AI is
\* never invoked before the user message is stored, the assistant message is
\* never stored before an AI invocation, the session is never saved before
\* the assistant message store was attempted, and a turn that saved went
\* through all four.
C7_TurnOrdering ==
    \A w \in Workers :
        LET tr == turn[w].trace IN
        /\ \A i, j \in 1..Len(tr) : i < j => Rank(tr[i]) < Rank(tr[j])
        /\ Occurs(tr, "ai") => Occurs(tr, "user_msg")
        /\ Occurs(tr, "assistant_msg") => Occurs(tr, "ai")
        /\ Occurs(tr, "save") => Occurs(tr, "assistant_msg")
        /\ turn[w].saved => Occurs(tr, "save")
        /\ turn[w].userMessage.Stored = Occurs(tr, "user_msg")

\* a turn with a search reached the terminal save
C7_Witness ==
    \E w \in Workers :
        /\ turn[w].saved
        /\ turn[w].trace = <<"user_msg", "ai", "search", "assistant_msg", "save">>

\* C8: content equality. Whenever the assistant message has been stored and
\* the turn's response is not an error, the stored content equals the
\* response's Output, and neither is empty (both are the placeholder when
\* both would have been empty).
C8_ContentEquality ==
    \A w \in Workers :
        LET t == turn[w] IN
        (t.assistantMessage.Stored /\ t.response.Error = "")
            => /\ t.assistantMessage.Content = t.response.Output
               /\ t.assistantMessage.Content # ""
               /\ (t.gemini.Output = "" /\ t.response.Type = t.gemini.ResponseType
                     /\ t.gemini.ResponseType \in {"dialogue", "other"})
                        => t.response.Output = TextPlaceholder

\* a stored message whose content was overwritten after the message object
\* was created (search failure replaced the AI's own output)
C8_Witness ==
    \E w \in Workers :
        /\ turn[w].saved
        /\ turn[w].assistantMessage.Stored
        /\ turn[w].gemini.Output = "o"
        /\ turn[w].response.Output = TextNoProducts

\* C9: save-failure hard-stop. When the terminal save has failed on every
\* attempt the result is the session_save_failed error, and no search counter
\* incremented during the turn stays committed: neither the persisted
\* search_count nor the anonymous per-browser counter.
C9_SaveFailureHardStop ==
    \A w \in Workers :
        LET t == turn[w] IN
        (t.pc = "done" /\ t.saveFailures = SaveMaxAttempts)
            => /\ t.response.Error = "session_save_failed"
               /\ ~t.saved
               /\ store[t.session.ID].SearchCount <= t.loaded.SearchCount
               /\ (t.req.BrowserID # "" =>
                      anonCount[t.req.BrowserID] = t.anonAtStart)

\* C9 without the anonymous counter: what the code does guarantee
C9_SessionCounterNotCommitted ==
    \A w \in Workers :
        LET t == turn[w] IN
        (t.pc = "done" /\ t.saveFailures = SaveMaxAttempts)
            => /\ t.response.Error = "session_save_failed"
               /\ ~t.saved
               /\ store[t.session.ID].SearchCount <= t.loaded.SearchCount

\* C10: AI retry then degrade. An AI invocation is made only as the 1st, 2nd
\* or 3rd of the turn; a failed invocation other than the 3rd leads to the
\* next attempt, a successful one ends the loop, and a failed 3rd one ends the
\* turn with the fixed dialogue response, non-empty quick replies and no
\* error.
C10_Step ==
    \A w \in Workers :
        (turn[w].pc = "ai" /\ turn'[w] # turn[w]) =>
            /\ turn[w].attempt + 1 <= 3
            /\ turn'[w].pc = "ai" =>
                  /\ turn'[w].attempt = turn[w].attempt + 1
                  /\ ~turn'[w].gemini.Set
            /\ turn'[w].pc = "done" =>
                  /\ turn[w].attempt + 1 = 3
                  /\ ~turn'[w].gemini.Set
                  /\ turn'[w].response.Type = "dialogue"
                  /\ turn'[w].response.Output = TextFallback
                  /\ turn'[w].response.QuickReplies # <<>>
                  /\ turn'[w].response.Error = ""
            /\ turn'[w].pc \notin {"ai", "done"} => turn'[w].gemini.Set

C10_AIRetryThenDegrade == [][C10_Step]_vars

\* all three invocations failed and the turn ended with the fallback response
C10_Witness ==
    \E w \in Workers :
        /\ turn[w].pc = "done"
        /\ turn[w].attempt = 2
        /\ turn[w].response.Output = TextFallback

-----------------------------------------------------------------------------
(* Claims on the fan-out layer                                             *)

IsSyncOf(frame, k) ==
    \/ frame = WSResponse("user_message_sync", UserMessageID(k))
    \/ frame = WSResponse("assistant_message_sync", AssistantMessageID(k))

\* C5: fan-out exclusion. An event broadcast for a user from a connection
\* (the excluded connection id) is never delivered to that connection by any
\* leg of the broadcast: not by the local leg, and not by a process handling
\* the publication, the originating process included.
C5_FanoutExclusion ==
    \A k \in 1..Len(chats) :
        \A i \in 1..Len(inbox[chats[k].Origin]) :
            ~IsSyncOf(inbox[chats[k].Origin][i], k)

Received(c, frame) == \E i \in 1..Len(inbox[c]) : inbox[c][i] = frame

FirstIndex(c, frame) ==
    CHOOSE i \in 1..Len(inbox[c]) :
        inbox[c][i] = frame /\ \A j \in 1..(i - 1) : inbox[c][j] # frame

\* C6: for an authenticated chat turn, a connection of the same user other
\* than the sender that receives both the user_message_sync and the
\* assistant_message_sync of the turn receives the user_message_sync first.
C6_EchoBeforeAssistant ==
    \A k \in 1..Len(chats) :
        \A c \in Conns \ {chats[k].Origin} :
            LET u == WSResponse("user_message_sync", UserMessageID(k))
                a == WSResponse("assistant_message_sync", AssistantMessageID(k))
            IN (Received(c, u) /\ Received(c, a))
                  => FirstIndex(c, u) < FirstIndex(c, a)

\* the order does hold for the connections that were registered for the user
\* when the chat message was received
C6_PeersEchoBeforeAssistant ==
    \A k \in 1..Len(chats) :
        \A c \in chats[k].Peers :
            LET u == WSResponse("user_message_sync", UserMessageID(k))
                a == WSResponse("assistant_message_sync", AssistantMessageID(k))
            IN (Received(c, u) /\ Received(c, a))
                  => FirstIndex(c, u) < FirstIndex(c, a)

-----------------------------------------------------------------------------
(* Claims C11..C20                                                         *)

AnonRefused(t) ==
    /\ t.pc = "done"
    /\ IsLimitResponse(t.response)
    /\ t.response.SearchState.RequiresAuthentication
    /\ ~t.response.SearchState.CanContinue
    /\ \A i \in 1..Len(t.trace) : t.trace[i] \notin {"ai", "search", "save"}
    /\ ~t.saved
    /\ store[t.session.ID] =
          IF t.loaded.Exists THEN t.loaded
          ELSE CreateSessionWithUser(t.session.ID, t.req.UserID)

\* the turn passed validation and session loading and came to the quota checks
ReachedQuotaCheck(t) == t.pc # "idle" /\ t.session.Exists

\* C12 as stated: every unauthenticated turn whose browser's count is at or
\* above the limit returns the limit response with requires_authentication =
\* true and can_continue = false, calls neither the AI nor the search
\* collaborator and saves no session change.
C12_AnonymousQuota ==
    \A w \in Workers :
        LET t == turn[w] IN
        (/\ ReachedQuotaCheck(t) /\ IsAnonymous(t.req)
         /\ t.anonAtStart >= AnonymousSearchLimit)
            => AnonRefused(t)

\* C12 amended: every unauthenticated turn whose browser's count is at or
\* above the limit and whose read of that count succeeds is refused in that
\* way; a turn whose read of the counter fails goes on as if the count were 0.
C12_AnonymousQuotaAsRead ==
    \A w \in Workers :
        LET t == turn[w] IN
        /\ (/\ ReachedQuotaCheck(t) /\ IsAnonymous(t.req)
             /\ t.anonAtStart >= AnonymousSearchLimit /\ ~t.getAnonErr)
                => AnonRefused(t)
        /\ (ReachedQuotaCheck(t) /\ IsAnonymous(t.req) /\ t.getAnonErr)
                => t.anonymousSearchUsed = 0

\* an anonymous turn of a browser at the limit was refused
C12_Witness ==
    \E w \in Workers :
        /\ IsAnonymous(turn[w].req)
        /\ turn[w].anonAtStart >= AnonymousSearchLimit
        /\ ~turn[w].getAnonErr
        /\ AnonRefused(turn[w])

\* the step in which worker w takes a request and runs it up to the AI call
\* or to an early return: new_search and the (re-)creation of the session
\* happen in this step
BeginsTurn(w) == turn[w].pc = "idle" /\ turn'[w].pc # "idle"

\* C13: a turn's start, with new_search = true or with the session created
\* anew (under the supplied ID after the lookup missed, or under a generated
\* ID), leaves the browser's anonymous counter unchanged, and when that
\* counter is at the limit and is read the turn is refused by the anonymous
\* quota all the same.
C13_ResetKeepsAnonymousCount ==
    [][\A w \in Workers :
          LET t == turn'[w] IN
          (/\ BeginsTurn(w) /\ t.session.Exists /\ IsAnonymous(t.req)
           /\ (t.req.NewSearch \/ ~t.loaded.Exists))
             => /\ anonCount' = anonCount
                /\ (/\ anonCount[t.req.BrowserID] >= AnonymousSearchLimit
                    /\ ~t.getAnonErr)
                      => /\ t.pc = "done"
                         /\ IsLimitResponse(t.response)
                         /\ t.response.SearchState.RequiresAuthentication
                         /\ t.response.SearchState.AnonymousSearchUsed
                               = anonCount'[t.req.BrowserID]]_vars

\* a browser at the limit was refused on a turn with new_search = true
C13_Witness ==
    \E w \in Workers :
        /\ turn[w].pc = "done" /\ turn[w].req.NewSearch
        /\ turn[w].loaded.Exists /\ turn[w].loaded.SearchCount > 0
        /\ IsAnonymous(turn[w].req)
        /\ turn[w].anonAtStart >= AnonymousSearchLimit
        /\ turn[w].response.SearchState.RequiresAuthentication
        /\ anonCount[turn[w].req.BrowserID] = turn[w].anonAtStart

\* a browser at the limit was refused on a session created under a new ID
C13_WitnessNewID ==
    \E w \in Workers :
        /\ turn[w].pc = "done" /\ turn[w].supplied = ""
        /\ turn[w].session.ID \in GeneratedIDs
        /\ IsAnonymous(turn[w].req)
        /\ turn[w].anonAtStart >= AnonymousSearchLimit
        /\ turn[w].response.SearchState.RequiresAuthentication

\* the count the cache holds for the request's browser (0 without a browser)
CurrentAnonymousCount(req) ==
    IF req.BrowserID # "" THEN anonCount[req.BrowserID] ELSE 0

\* C14 as stated: in the SearchStateResponse of every turn that completes the
\* terminal save, requires_authentication is true exactly when the request is
\* unauthenticated and the browser's current count is at or above the limit,
\* and can_continue is true exactly when search_count < max_searches and
\* requires_authentication is false.
C14_FinalSearchState ==
    \A w \in Workers :
        LET t == turn[w]
            ss == t.response.SearchState
        IN t.saved =>
            /\ ss.RequiresAuthentication
                  = (/\ t.req.UserID = NoUser
                     /\ CurrentAnonymousCount(t.req) >= AnonymousSearchLimit)
            /\ ss.CanContinue
                  = (ss.SearchCount < MaxSearches /\ ~ss.RequiresAuthentication)

\* C14 amended: the same equivalences when the read of the browser's count
\* after the save succeeds; when that read fails the count is taken as 0 and
\* requires_authentication is false.
C14_FinalSearchStateAsRead ==
    \A w \in Workers :
        LET t == turn[w]
            ss == t.response.SearchState
        IN t.saved =>
            /\ ss.SearchCount = t.session.SearchCount
            /\ ss.CanContinue
                  = (ss.SearchCount < MaxSearches /\ ~ss.RequiresAuthentication)
            /\ IF t.finalGetAnonErr
               THEN ~ss.RequiresAuthentication /\ ss.AnonymousSearchUsed = 0
               ELSE /\ ss.AnonymousSearchUsed
                         = (IF t.req.UserID = NoUser
                            THEN CurrentAnonymousCount(t.req) ELSE 0)
                    /\ ss.RequiresAuthentication
                         = (/\ t.req.UserID = NoUser
                            /\ CurrentAnonymousCount(t.req)
                                  >= AnonymousSearchLimit)

\* a saved anonymous turn reports requires_authentication with searches left
\* in the session
C14_Witness ==
    \E w \in Workers :
        /\ turn[w].saved /\ ~turn[w].finalGetAnonErr
        /\ turn[w].response.SearchState.RequiresAuthentication
        /\ ~turn[w].response.SearchState.CanContinue
        /\ turn[w].response.SearchState.SearchCount < MaxSearches

\* the store of the turn's user message, or of its assistant message, failed
UserMessageFailed(t) == t.userMessage.Set /\ ~t.userMessage.Stored
AssistantMessageFailed(t) ==
    /\ Occurs(t.trace, "assistant_msg") /\ ~t.assistantMessage.Stored

C18_WitnessAssistant ==
    \E w \in Workers :
        /\ AssistantMessageFailed(turn[w])
        /\ turn[w].saved /\ turn[w].response.Error = ""

\* the result names the session: every result but the three early errors
NamesSession(r) ==
    r.Set /\ r.Error \notin {"validation_error", "session_error", "storage_error"}

\* C20: when a session ID is supplied and the lookup misses, the turn creates
\* a fresh session under the same ID, returns no error for the miss, and its
\* result carries the supplied ID; when no session ID is supplied a new ID is
\* generated, the session is created under it and the result carries it.
C20_SessionRecreation ==
    [][\A w \in Workers :
          LET t == turn'[w] IN
          /\ (BeginsTurn(w) /\ t.req.Message # "" /\ ~t.createFails) =>
                /\ t.response.Error # "session_error"
                /\ t.session.Exists
                /\ t.session.ID = t.req.SessionID
                /\ IF t.supplied # ""
                   THEN /\ t.req.SessionID = t.supplied
                        /\ ~store[t.supplied].Exists =>
                              store'[t.supplied] =
                                  CreateSessionWithUser(t.supplied, t.req.UserID)
                   ELSE /\ t.req.SessionID \in GeneratedIDs
                        /\ ~store[t.req.SessionID].Exists
                        /\ store'[t.req.SessionID] =
                              CreateSessionWithUser(t.req.SessionID, t.req.UserID)
          /\ (t.session.Exists /\ NamesSession(t.response)) =>
                /\ t.response.SessionID = t.session.ID
                /\ t.supplied # "" => t.response.SessionID = t.supplied
                /\ t.supplied = "" => t.response.SessionID \in GeneratedIDs]_vars

\* a turn on a supplied ID that the store did not hold saved and returned
\* that ID
C20_Witness ==
    \E w \in Workers :
        /\ turn[w].saved /\ turn[w].supplied # "" /\ ~turn[w].loaded.Exists
        /\ turn[w].response.SessionID = turn[w].supplied
        /\ store[turn[w].supplied].Exists

\* a turn without a session ID saved and returned a generated ID
C20_WitnessGenerated ==
    \E w \in Workers :
        /\ turn[w].saved /\ turn[w].supplied = ""
        /\ turn[w].response.SessionID \in GeneratedIDs
        /\ store[turn[w].response.SessionID].Exists

\* worker w is between loading its session and the end of its turn
InFlight(w) == turn[w].pc \in {"ai", "search", "finish", "save"}

\* C15: turns on the same session are processed serially: no two turns on
\* one session are in flight at the same time, and of two turns that saved the
\* same session one started from the session the other saved (no update is
\* lost).
C15_SerialTurns ==
    \A a, b \in Workers :
        (a # b /\ turn[a].session.Exists
         /\ turn[a].session.ID = turn[b].session.ID)
            => /\ ~(InFlight(a) /\ InFlight(b))
               /\ (turn[a].saved /\ turn[b].saved)
                     => \/ turn[a].loaded = turn[b].session
                        \/ turn[b].loaded = turn[a].session

\* C16: registry consistency. In every process, a connection is in the
\* connection set of user U exactly when the client map holds it with
\* UserID = U; a connection is in at most one user's set; and no user is a key
\* of the index with an empty connection set.
C16_RegistryConsistency ==
    \A p \in Procs :
        LET h == wsHandler[p] IN
        /\ \A u \in FanUsers, c \in Conns :
              (u \in h.userKeys /\ c \in h.userConns[u]) <=> h.clients[c] = u
        /\ \A c \in Conns :
              Cardinality({u \in h.userKeys : c \in h.userConns[u]}) <= 1
        /\ \A u \in h.userKeys : h.userConns[u] # {}

\* a process holds a connection of u2 after the only connection of u1 on it
\* was closed and the key of u1 was removed from the index
C16_Witness ==
    \E c, d \in Conns :
        /\ c # d /\ Home(c) = Home(d)
        /\ conn[c].pc = "closed" /\ conn[c].userID = "u1"
        /\ wsHandler[Home(d)].clients[d] = "u2"
        /\ wsHandler[Home(d)].userKeys = {"u2"}
        /\ wsHandler[Home(d)].userConns["u2"] = {d}

\* the step in which connection c's handler receives the chat message that
\* becomes the last entry of chats
ReceivesChat(c) ==
    /\ Len(chats') = Len(chats) + 1
    /\ chats'[Len(chats')].Origin = c

\* the message is answered with the error frame alone: nothing is written to
\* another connection, nothing is published, and ProcessChat is not entered
RejectedWith(c, code) ==
    /\ inbox'[c] = Append(inbox[c], ErrorFrame(code))
    /\ \A d \in Conns \ {c} : inbox'[d] = inbox[d]
    /\ bus' = bus
    /\ conn'[c].pc = "idle"
    /\ UNCHANGED <<svcVars, turn, store, anonCount>>

\* C19: a chat message (that passed the rate limiter) whose signed session ID
\* fails verification is rejected with invalid_session, and one whose embedded
\* owner differs from the authenticated user is rejected with
\* session_ownership; in both cases nothing is broadcast and ProcessChat is not
\* invoked.
C19_AuthorizationErrors ==
    [][\A c \in Conns :
          LET m == chats'[Len(chats')] IN
          (ReceivesChat(c) /\ ~m.Limited) =>
              /\ m.Signature = "invalid" => RejectedWith(c, "invalid_session")
              /\ m.Signature = "mismatch" => RejectedWith(c, "session_ownership")
              /\ m.Signature = "ok" => conn'[c].pc = "chat"]_vars

\* a message of an authenticated user with another user's signed session was
\* rejected while another connection of the user was registered, and that
\* connection received nothing
C19_Witness ==
    \E k \in 1..Len(chats) :
        /\ chats[k].Signature = "mismatch" /\ ~chats[k].Limited
        /\ chats[k].Peers # {}
        /\ inbox[chats[k].Origin] = <<ErrorFrame("session_ownership")>>
        /\ \A d \in chats[k].Peers : inbox[d] = <<>>

\* no publication is waiting at any subscriber
Quiet == \A p \in Procs : bus[p] = <<>>

\* a step that takes a publication off a subscriber's queue (the subscriber
\* handles it)
Handles(p) == Len(bus'[p]) < Len(bus[p])

\* C17: no re-broadcast. A step publishes at most one message, which reaches
\* every subscriber once; a process handling a publication takes it off its
\* queue, writes it at most once to connections it serves and to no other, and
\* publishes nothing; so the publications are all handled in the end and the
\* system quiesces.
C17_NoRebroadcast ==
    /\ [][/\ \/ bus' = bus
              \/ \E p \in Procs : Handles(p)
              \/ \E s \in Procs :
                    /\ bus'[s] # <<>>
                    /\ \A q \in Procs :
                          bus'[q] = Append(bus[q], bus'[s][Len(bus'[s])])
          /\ \A p \in Procs :
                Handles(p) =>
                    /\ bus' = [bus EXCEPT ![p] = Tail(@)]
                    /\ \A c \in Conns :
                          \/ inbox'[c] = inbox[c]
                          \/ /\ Home(c) = p
                             /\ wsHandler[p].clients[c] = Head(bus[p]).UserID
                             /\ inbox'[c] = Append(inbox[c], Head(bus[p]).Payload)]_vars
    /\ <>[]Quiet

\* a publication was handled by a process without a connection of the user
\* and dropped, and nothing is left on the topic
C17_Witness ==
    /\ Quiet
    /\ \E k \in 1..Len(chats) :
          /\ chats[k].UserID # NoUser
          /\ wsHandler["p2"].userKeys = {}
          /\ conn[chats[k].Origin].pc = "idle"
          /\ \E i \in 1..Len(inbox[chats[k].Origin]) :
                inbox[chats[k].Origin][i].Type = "response"
          /\ conn["c3"].pc = "idle" /\ inbox["c3"] = <<>>

-----------------------------------------------------------------------------
(* Claims C21..C30                                                         *)

\* the step starts a call of ProcessWithUniversalPrompt (an AI call attempt
\* with its retry backoff) for worker w
StartsAICall(w) == turn[w].pc = "ai" /\ turn'[w] # turn[w]

\* the step starts performSearch (translation call, then search call)
StartsSearch(w) == turn[w].pc = "search" /\ turn'[w] # turn[w]

\* C21: once the turn's 60 s deadline has expired, the turn starts no further
\* AI call attempt, retry backoff, translation call or search call
C21_TurnDeadline ==
    [][\A w \in SerialWorkers :
          turn[w].expired => ~(StartsAICall(w) \/ StartsSearch(w))]_vars

\* C22: for a raw text made of a valid JSON object A followed by a valid JSON
\* object B, extractJSONFromText returns exactly A, also when A has braces
\* or escaped quotes inside its string values
C22_ExtractsFirstObject ==
    (jsonCall.fn = "extractJSONFromText" /\ jsonCall.kind = "concat")
        => jsonCall.out = jsonCall.a

\* A holds a string with an escaped quote followed by a closing brace
C22_Witness ==
    /\ jsonCall.fn = "extractJSONFromText"
    /\ jsonCall.kind = "concat"
    /\ jsonCall.a = Object(Member("a", Quoted(<<"\\", "\"", "}">>)))
    /\ jsonCall.b = Object(Member("a", Quoted(<<"}", "{">>)))
    /\ Unmarshal(jsonCall.a).ok /\ Unmarshal(jsonCall.b).ok
    /\ jsonCall.out = jsonCall.a

\* the fields of the object before truncation, its last field excepted
CompleteFields(call) ==
    LET fields == Unmarshal(call.a).Fields IN SubSeq(fields, 1, Len(fields) - 1)

\* C23: for an object truncated so that only its final closing quote and
\* closing brace are missing, the repair pipeline yields text that decodes,
\* and every field that was complete before the truncation point is kept
\* with its original value
C23_RepairConvergence ==
    (jsonCall.fn = "ParseResponse" /\ jsonCall.kind = "truncated")
        => /\ jsonCall.parsed.ok
           /\ \A i \in 1..Len(CompleteFields(jsonCall)) :
                \E j \in 1..Len(jsonCall.parsed.Fields) :
                    jsonCall.parsed.Fields[j] = CompleteFields(jsonCall)[i]

\* C30: the text returned by attemptJSONRepair has, outside string literals,
\* as many '}' as '{' and as many ']' as '['
C30_RepairBalances ==
    jsonCall.fn = "attemptJSONRepair"
        => /\ Count(jsonCall.out, "{") = Count(jsonCall.out, "}")
           /\ Count(jsonCall.out, "[") = Count(jsonCall.out, "]")

\* C24: when the context depth is Full, the context sent to the LLM holds
\* every entry of the current cycle's history, for every history length that
\* occurs within a cycle
C24_FullContextComplete ==
    (prompt.pc = "assistant" /\ prompt.depth = "full")
        => prompt.context.Messages = prompt.cs.CycleHistory

\* C25: when the preference extraction or the summary generation sub-call
\* fails, the corresponding field keeps its previous value, the other
\* sub-steps still run, and the error is returned to the caller
C25_ExtractorFailureReported ==
    LET u == extractor.update
        post == extractor.context
    IN (u.made /\ (u.prefFailed \/ u.sumFailed))
        => /\ u.prefFailed => post.Preferences = u.pre.Preferences
           /\ u.sumFailed => post.Summary = u.pre.Summary
           /\ u.matched \subseteq post.Exclusions
           /\ u.err

\* C26: after a successful preference extraction every previously stored
\* brand, feature and price range is still present unless the new messages
\* explicitly changed it, whatever the LLM sub-call returned
C26_PreferencesAdditive ==
    LET u == extractor.update
        post == extractor.context.Preferences
    IN (u.made /\ ~u.prefFailed /\ ~u.userChanged)
        => /\ u.pre.Preferences.Brands \subseteq post.Brands
           /\ u.pre.Preferences.Features \subseteq post.Features
           /\ (u.pre.Preferences.PriceRange # "nil"
                  => post.PriceRange = u.pre.Preferences.PriceRange)

\* the step is a closure of the open connection
Closes == client.pc = "open" /\ client'.pc # "open"

\* C27: after a closure with a code other than 1000 the client reconnects,
\* anonymous or authenticated, refreshing the access token first when it has
\* expired; after a normal closure (code 1000) the client never reconnects
C27_ReconnectionPolicy ==
    [][/\ (Closes /\ client'.code # NormalClosure)
            => IF client.accessToken = "expired"
               THEN client'.pc = "refreshing" ELSE client'.pc = "reconnecting"
       /\ (Closes /\ client'.code = NormalClosure) => client'.pc = "closed"
       /\ (client.pc # "open" /\ client.code = NormalClosure)
            => client'.pc # "open"]_vars

\* the message ids of the frames of that type delivered to any connection
DeliveredIDs(type) ==
    UNION {{inbox[c][i].MessageID :
               i \in {j \in 1..Len(inbox[c]) : inbox[c][j].Type = type}} :
           c \in Conns}

\* C29: message identity across devices. For a chat turn handled over
\* WebSocket, the message_id of the direct response to the sender, the
\* message_id of assistant_message_sync and the id of the stored assistant
\* message are the same pre-generated assistant id, and the message_id of
\* user_message_sync is the id under which the user message is stored
\* (whenever the turn stores the message).
C29_MessageIdentity ==
    /\ \A k \in 1..Len(chats) :
        LET ch == chats[k] IN
        /\ ch.StoredAssistant # NoMessageID =>
              /\ ch.StoredAssistant = AssistantMessageID(k)
              /\ Received(ch.Origin, WSResponse("response", ch.StoredAssistant))
        /\ ch.StoredUser # NoMessageID =>
              ch.StoredUser = UserMessageID(k)
        /\ \A c \in Conns \ {ch.Origin} :
              /\ Received(c, WSResponse("assistant_message_sync",
                                        AssistantMessageID(k)))
                    => /\ Received(ch.Origin,
                                   WSResponse("response", AssistantMessageID(k)))
                       /\ ch.StoredAssistant \in
                             {NoMessageID, AssistantMessageID(k)}
              /\ Received(c, WSResponse("user_message_sync", UserMessageID(k)))
                    => ch.StoredUser \in {NoMessageID, UserMessageID(k)}
    /\ DeliveredIDs("response") \cup DeliveredIDs("assistant_message_sync")
          \subseteq {AssistantMessageID(k) : k \in 1..Len(chats)}
    /\ DeliveredIDs("user_message_sync")
          \subseteq {UserMessageID(k) : k \in 1..Len(chats)}

\* another device of the user received both sync frames of a turn whose two
\* messages were stored, and the sender received the direct response
C29_Witness ==
    \E k \in 1..Len(chats) :
        \E c \in Conns \ {chats[k].Origin} :
            /\ chats[k].StoredUser = UserMessageID(k)
            /\ chats[k].StoredAssistant = AssistantMessageID(k)
            /\ Received(c, WSResponse("user_message_sync", chats[k].StoredUser))
            /\ Received(c, WSResponse("assistant_message_sync",
                                      chats[k].StoredAssistant))
            /\ Received(chats[k].Origin,
                        WSResponse("response", chats[k].StoredAssistant))

\* the step is the turn's search, and the search collaborator returned at
\* least one product
FoundProducts(w) ==
    /\ turn[w].pc = "search"
    /\ turn'[w].pc # "search"
    /\ performSearch(turn'[w].search) = "found"

\* the step belongs to a turn in progress
TurnStep(w) == turn[w].pc # "idle" /\ turn'[w].pc # "idle" /\ turn'[w] # turn[w]

\* every step of a turn in progress adds 1 to the session's search_count when
\* it is a search that returned products, and leaves it unchanged otherwise
SearchCountStep(w) ==
    TurnStep(w) =>
        turn'[w].session.SearchCount =
            turn[w].session.SearchCount + (IF FoundProducts(w) THEN 1 ELSE 0)

\* C28: in one turn search_count increases by exactly 1 if and only if the
\* search collaborator returned at least one product (AI failure, a dialogue
\* response, an empty query, a search error and zero results leave it
\* unchanged); the anonymous per-browser counter is incremented by exactly 1
\* in exactly the successful-search turns that are unauthenticated and carry
\* a browser id, and never for authenticated turns.
C28_SearchCounters ==
    [][\A w \in SerialWorkers :
          /\ SearchCountStep(w)
          /\ \A b \in BrowserIDs :
               anonCount'[b] = anonCount[b] +
                  (IF /\ FoundProducts(w) /\ IsAnonymous(turn[w].req)
                      /\ turn[w].req.BrowserID = b
                   THEN 1 ELSE 0)]_vars

\* C28 as the code has it: the per-browser counter is incremented by exactly
\* 1 in the successful-search turns that are unauthenticated, carry a browser
\* id and whose increment call succeeds; it is unchanged when that call
\* fails, in every other step of a turn, and for authenticated turns
C28_SearchCountersAsStored ==
    [][\A w \in SerialWorkers :
          /\ SearchCountStep(w)
          /\ \A b \in BrowserIDs :
               anonCount'[b] = anonCount[b] +
                  (IF /\ FoundProducts(w) /\ IsAnonymous(turn[w].req)
                      /\ turn[w].req.BrowserID = b
                      /\ ~turn'[w].incrementErr
                   THEN 1 ELSE 0)]_vars

\* an anonymous turn with a browser id found products, counted the search in
\* both counters and was saved
C28_Witness ==
    \E w \in SerialWorkers :
        /\ turn[w].saved
        /\ IsAnonymous(turn[w].req)
        /\ performSearch(turn[w].search) = "found"
        /\ ~turn[w].incrementErr
        /\ turn[w].session.SearchCount = turn[w].loaded.SearchCount + 1
        /\ anonCount[turn[w].req.BrowserID] = turn[w].anonAtStart + 1

\* the same turn when the increment of the per-browser counter failed
C28_IncrementFailed ==
    \E w \in SerialWorkers :
        /\ turn[w].saved
        /\ IsAnonymous(turn[w].req)
        /\ performSearch(turn[w].search) = "found"
        /\ turn[w].incrementErr
        /\ anonCount[turn[w].req.BrowserID] = turn[w].anonAtStart

-----------------------------------------------------------------------------
(* Claims C31..C40                                                         *)

\* the last SearchWithCache call found its key in the cache
CacheHit == ~searchCall.getErr /\ ~searchCall.pre[searchCall.key].nil

\* C31: cache-first search. On a cache hit SearchWithCache returns the cached
\* cards with key index -1 and makes no provider call; on a miss it calls the
\* provider and stores the result only when the search succeeded, so a failed
\* search is never cached and never served from the cache later.
C31_CacheFirst ==
    /\ searchCall.made =>
          IF CacheHit
          THEN /\ searchCall.cards = searchCall.pre[searchCall.key]
               /\ searchCall.keyIndex = -1
               /\ searchCall.providerCalls = 0
               /\ ~searchCall.err
               /\ searchCall.post = searchCall.pre
          ELSE /\ searchCall.providerCalls = 1
               /\ searchCall.post =
                     IF searchCall.err \/ searchCall.setFails
                     THEN searchCall.pre
                     ELSE [searchCall.pre EXCEPT
                              ![searchCall.key] = searchCall.cards]
    /\ \A k \in CacheKeys :
          ~serpCache[k].nil => <<k, serpCache[k]>> \in searchCall.succeeded
    /\ (searchCall.made /\ ~searchCall.err) =>
          <<searchCall.key, searchCall.cards>> \in searchCall.succeeded

\* a call was served from the cache with the cards an earlier successful
\* search had stored
C31_Witness ==
    /\ searchCall.made
    /\ CacheHit
    /\ searchCall.providerCalls = 0
    /\ searchCall.cards.len > 0

\* C32: for an existing session, a chat request that omits country, language
\* or currency leaves the session's stored value of that field unchanged; a
\* stored locale field is overwritten only when the request supplies a
\* non-empty, different value.
C32_LocalePreserved ==
    localeCall.made =>
        LET old == localeCall.session
            new == localeCall.result
            req == localeCall.req
        IN /\ req.Country = "" => new.CountryCode = old.CountryCode
           /\ req.Language = "" => new.LanguageCode = old.LanguageCode
           /\ req.Currency = "" => new.Currency = old.Currency
           /\ new.CountryCode # old.CountryCode =>
                 req.Country \notin {"", old.CountryCode}
           /\ new.LanguageCode # old.LanguageCode =>
                 req.Language \notin {"", old.LanguageCode}
           /\ new.Currency # old.Currency =>
                 req.Currency \notin {"", old.Currency}

\* C33: in every session state saved by a completed turn the cycle history
\* has 2 x (iteration - 1) entries, and a turn that begins at iteration
\* MaxIterations and is saved ends with iteration 1, the cycle id one higher
\* and an empty history.
C33_Step ==
    /\ Len(prompt'.saved.CycleHistory) = 2 * (prompt'.saved.Iteration - 1)
    /\ (prompt'.saved # prompt.saved /\ prompt.saved.Iteration = MaxIterations)
          => /\ prompt'.saved.Iteration = 1
             /\ prompt'.saved.CycleID = prompt.saved.CycleID + 1
             /\ prompt'.saved.CycleHistory = <<>>

C33_HistoryLength == [][C33_Step]_vars

\* a saved turn that began at iteration MaxIterations has opened cycle 2
C33_Witness ==
    /\ prompt.pc = "user"
    /\ prompt.saved.CycleID = 2
    /\ prompt.saved.Iteration = 1

\* C34: at most one goroutine writes to a given WebSocket connection at any
\* time: a broadcast write to a connection never overlaps with the write of
\* the connection's own handler, nor with another broadcast write to it.
C34_SingleWriter ==
    \A c \in HubConns : Cardinality(connWriters[c]) <= 1

\* goroutine g is inside the range loop over the connection set of user u
Iterates(g, u) ==
    /\ goroutine[g].pc \in {"iterating", "writing"}
    /\ goroutine[g].op = "broadcast"
    /\ ~goroutine[g].orphaned
    /\ goroutine[g].user = u

\* goroutine m is inside a call that writes to the connection set of user u
Mutates(m, u) ==
    /\ goroutine[m].pc = "mutating"
    /\ u \in WrittenSets(Hub, goroutine[m].op, m, goroutine[m].user)

\* C35: registry reads and mutations are mutually exclusive: broadcastToUser
\* and handleBroadcastMessage never iterate a user's connection set while
\* updateClientUser or removeClient is mutating that set.
C35_RegistryExclusion ==
    \A u \in HubUsers :
        \A m \in HubConns, g \in HubGoroutines : ~(Mutates(m, u) /\ Iterates(g, u))

\* C36: the anonymous per-browser search counter never exceeds the anonymous
\* search limit, also when several unauthenticated turns for the same browser
\* id run concurrently.
C36_CounterWithinLimit ==
    \A b \in BrowserIDs : anonCount[b] <= AnonymousSearchLimit

\* C37: ProcessChat never changes the owner of a session that already has an
\* owner: after the session was loaded for a request, a session that had an
\* owner still has that owner, whoever sent the request.
C37_OwnerUnchanged ==
    (localeCall.made /\ localeCall.owner # NoUser)
        => localeCall.resultOwner = localeCall.owner

\* C38: an LLM API key is marked exhausted only if a request made with that
\* key returned a quota error, also when two requests fail on the same key
\* at the same time.
C38_ExhaustedOnlyAfterQuotaError ==
    geminiSvc.exhausted \subseteq geminiSvc.quotaErrors

\* C39: for an authenticated chat turn, every user_message_sync broadcast is
\* eventually followed by an assistant_message_sync broadcast for the same
\* turn, however the turn ends.
C39_SyncAnswered ==
    \A k \in 1..MaxChats :
        (k <= Len(chats) /\ chats[k].UserSync)
            ~> (k <= Len(chats) /\ chats[k].AssistantSync)

\* C40: when a connection's read loop has ended, the connection is in
\* neither the client index nor any user's connection set, a user without
\* connections has no entry in the user index, and no broadcast started
\* after the removal writes to the connection.
C40_RemovedOnClose ==
    /\ \A c \in HubConns :
          goroutine[c].pc = "closed" =>
              /\ Hub.clients[c] = Absent
              /\ \A u \in FanUsers : c \notin Hub.userConns[u]
    /\ \A u \in FanUsers : u \in Hub.userKeys => Hub.userConns[u] # {}
    /\ \A g \in HubGoroutines :
          (goroutine[g].pc = "writing" /\ goroutine[g].op = "broadcast")
              => goroutine[g].cid \notin goroutine[g].closedAtStart

\* a broadcast that started after a connection of the user was removed is
\* writing to the user's other connection
C40_Witness ==
    \E g \in HubGoroutines :
        /\ goroutine[g].pc = "writing"
        /\ goroutine[g].op = "broadcast"
        /\ goroutine[g].closedAtStart # {}
        /\ goroutine[g].closedAtStart \cap goroutine[g].visited = {}

====
